---- MODULE Spec2Model ----
(***************************************************************************)
(* The platform gateway of Nphies-pro: the role/scope gate                 *)
(* (brainsait/rbac), the audit logger (brainsait/auditLogger), the tenants *)
(* router and the claims router, over the Prisma store (Tenant, Claim,     *)
(* ClaimActivity).                                                         *)
(*                                                                         *)
(* Every request is one handler invocation.  A handler runs synchronously  *)
(* up to its next `await`; each await is one round trip to the store.  One *)
(* action of the model is one such piece: the store operation that was     *)
(* awaited together with the synchronous code that follows it up to the    *)
(* next await (or up to the response).  Requests in different slots        *)
(* interleave at these points.                                             *)
(***************************************************************************)
EXTENDS Integers, Sequences, FiniteSets, Bags, TLC

\* ---------------------------------------------------------------- bounds
\* Requests served in one behaviour: a request counts once it is in flight
\* (it passed the gate and its validation and awaits the store) and, after
\* its response, by the audit line it left.
MaxRequests == 3
\* Last value of the wall clock (new Date(), CURRENT_TIMESTAMP).
MaxTime == 1

\* ------------------------------------------------------------ JS values
\* An optional value (a body field, a header, a nullable column) is a
\* sequence of length at most one.
Absent == <<>>
NULL == <<>>
Some(v) == <<v>>
Val(o) == o[1]

\* JavaScript truthiness of an optional value: undefined, "" and 0 are
\* falsy.  One operator per type of the value when present: a string, a
\* number, a string held as a sequence of characters.
FalsyStr(o) == o = Absent \/ o = Some("")
FalsyNum(o) == o = Absent \/ o = Some(0)
FalsyText(o) == o = Absent \/ o = Some(<<>>)

\* Strings that the code trims or slices are sequences of characters.
IsSpace(ch) == ch = " "

RECURSIVE TrimStart(_)
TrimStart(s) ==
  IF s # <<>> /\ IsSpace(Head(s)) THEN TrimStart(Tail(s)) ELSE s

RECURSIVE TrimEnd(_)
TrimEnd(s) ==
  IF s # <<>> /\ IsSpace(s[Len(s)]) THEN TrimEnd(SubSeq(s, 1, Len(s) - 1)) ELSE s

\* String.prototype.trim
Trim(s) == TrimEnd(TrimStart(s))

\* String.prototype.slice(from, to) for 0 <= from <= to
Slice(s, from, to) ==
  SubSeq(s, from + 1, IF to < Len(s) THEN to ELSE Len(s))

\* Array.prototype.includes
Includes(arr, x) == \E i \in 1..Len(arr) : arr[i] = x

\* ------------------------------------------------------------ rbac.ts
ROLES_TO_SCOPES ==
  [ doctor |-> <<"claims.read", "claims.write", "analytics.read">>,
    nurse |-> <<"claims.read", "analytics.read">>,
    provider_biller |->
      <<"claims.read", "claims.write", "analytics.read", "exports.write">>,
    insurer_analyst |-> <<"claims.read", "analytics.read", "exports.write">>,
    analytics_viewer |-> <<"analytics.read">>,
    admin |->
      <<"claims.read", "claims.write", "analytics.read", "exports.write",
        "audit.read", "admin.manage">>,
    auditor |-> <<"claims.read", "analytics.read", "audit.read">>,
    claim_adjuster |-> <<"claims.read", "claims.write", "analytics.read">>,
    patient |-> <<"claims.read">> ]

\* ROLES_TO_SCOPES is a plain object literal: besides its own keys, a lookup
\* finds the properties it inherits from Object.prototype.
ObjectPrototypeKeys == {"toString", "constructor", "__proto__"}

\* The value of such an inherited property: truthy, and not an array.
NotAnArray == <<"[inherited property of Object.prototype]">>

\* ROLES_TO_SCOPES[key]: Some(array), Some(inherited value) or undefined.
RoleLookup(key) ==
  IF key \in DOMAIN ROLES_TO_SCOPES THEN Some(ROLES_TO_SCOPES[key])
  ELSE IF key \in ObjectPrototypeKeys THEN Some(NotAnArray)
  ELSE Absent

DefaultRole == "provider_biller"

\* req.user as set by mockUserMiddleware from the x-mock-role header and
\* the mock_role cookie.
mockUserMiddleware(headerRole, cookieRole) ==
  LET requestedRole ==
        IF ~FalsyStr(headerRole) THEN Val(headerRole)
        ELSE IF ~FalsyStr(cookieRole) THEN Val(cookieRole)
        ELSE DefaultRole
      role == IF RoleLookup(requestedRole) # Absent THEN requestedRole
              ELSE DefaultRole
  IN  [id |-> "user-001", role |-> role, scopes |-> Val(RoleLookup(role))]

\* Mutant of requireScope: every required scope must be held (AND).
requireScopeEvery(requiredScopes, user) ==
  LET scopes == IF user = Absent THEN <<>> ELSE Val(user).scopes
  IN  IF requiredScopes # <<>> /\ scopes = NotAnArray THEN "throw"
      ELSE IF \A i \in 1..Len(requiredScopes) : Includes(scopes, requiredScopes[i])
           THEN "next"
           ELSE "403"

\* requireScope(requiredScopes) applied to a request whose req.user is
\* `user` (Absent when no middleware set it): "next" calls the handler,
\* "403" is the Insufficient scope response, "throw" is the TypeError of
\* scopes.includes on a value that is no array.
requireScope(requiredScopes, user) ==
  LET scopes == IF user = Absent THEN <<>> ELSE Val(user).scopes
  IN  IF requiredScopes = <<>> THEN "403"
      ELSE IF scopes = NotAnArray THEN "throw"
      ELSE IF \E i \in 1..Len(requiredScopes) : Includes(scopes, requiredScopes[i])
           THEN "next"
           ELSE "403"

\* ----------------------------------------------------------------- state
VARIABLES
  tenants,     \* Tenant table: id -> row
  claims,      \* Claim table: id -> row
  activities,  \* ClaimActivity table, in insertion order
  audit,       \* lines written by auditLog, in order
  reqs,        \* the handler invocations in flight, a bag
  resp,        \* the response sent by the latest step, NoResp if it sent none
  now,         \* wall clock
  call         \* the latest direct call of requireScope and its outcome

store == <<tenants, claims, activities>>
vars == <<tenants, claims, activities, audit, reqs, resp, now, call>>

NoResp == [op |-> "none"]
NoInput == [none |-> TRUE]
NoCall == [fn |-> "none"]

Init ==
  /\ tenants = <<>>
  /\ claims = <<>>
  /\ activities = <<>>
  /\ audit = <<>>
  /\ reqs = EmptyBag
  /\ resp = NoResp
  /\ now = 0
  /\ call = NoCall

\* Time passes between any two steps.
Tick ==
  /\ resp = NoResp
  /\ now < MaxTime
  /\ now' = now + 1
  /\ resp' = NoResp
  /\ UNCHANGED <<tenants, claims, activities, audit, reqs, call>>

\* The response reaches the client.  A response is in `resp` in the state
\* right after the step that sent it, and no other step comes in between.
Deliver ==
  /\ resp # NoResp
  /\ resp' = NoResp
  /\ UNCHANGED <<tenants, claims, activities, audit, reqs, now, call>>

\* ------------------------------------------------------- auditLogger.ts
\* auditLog(record): one JSON line {ts, ...record} on the console.  The
\* function has no await: the line is written before the caller goes on.
auditLog(record) == Append(audit, [ts |-> now] @@ record)

\* --------------------------------------------------------- Prisma store
\* Primary keys are generated by the store (cuid()): the n-th row of a
\* table gets the n-th key, and key number 0 is never generated.
TenantKey(n) == "t" \o ToString(n)
ClaimKey(n) == "c" \o ToString(n)
ActivityKey(n) == "a" \o ToString(n)

NewTenantId == TenantKey(Cardinality(DOMAIN tenants) + 1)
NewClaimId == ClaimKey(Cardinality(DOMAIN claims) + 1)
NewActivityId == ActivityKey(Len(activities) + 1)

\* Column defaults of Tenant for the columns prisma.tenant.create is not
\* given.
TenantDefaults ==
  [status |-> "active", claimsProcessed |-> 0, lastActivity |-> now,
   createdAt |-> now]

\* prisma.tenant.create({data})
TenantCreate(data) == [id |-> NewTenantId] @@ data @@ TenantDefaults

\* Claim.tenantId references Tenant.id (the relation the routers include
\* as tenant.claims and claim.tenant): a claim row needs its tenant row.
ClaimTenantFk(tenantId) == tenantId \in DOMAIN tenants

\* prisma.claim.create({data}); updatedAt is kept by the store.
ClaimCreate(data) == [id |-> NewClaimId] @@ data @@ [updatedAt |-> now]

\* Mutant of ClaimUpdate: the update stamps submittedAt as well.
ClaimUpdateResubmit(id, data) == data @@ [claims[id] EXCEPT !.submittedAt = now + 1]

\* prisma.claim.update({where: {id}, data})
ClaimUpdate(id, data) == data @@ claims[id]

\* prisma.claimActivity.create({data}); createdAt defaults to the store's
\* current timestamp.
ActivityCreate(data) == [id |-> NewActivityId] @@ data @@ [createdAt |-> now]

\* ------------------------------------------------------------- requests
\* The x-mock-role header and the mock_role cookie of the requests sent.
RoleHints ==
  { <<Absent, Absent>>,
    <<Some("analytics_viewer"), Some("admin")>>,
    <<Some("intern"), Absent>>,
    <<Some("toString"), Absent>> }

\* A request in flight that has logged no audit line yet.
Unlogged(r) == \A e \in r.effects : e[1] # "audit"
Served ==
  LET quiet == {r \in BagToSet(reqs) : Unlogged(r)}
  IN  Len(audit) + BagCardinality([r \in quiet |-> reqs[r]])
CanBegin == resp = NoResp /\ Served < MaxRequests

\* What a request has written so far: keys of the rows it created or
\* updated and the audit lines it logged.
NoEffects == {}

\* The response of a request that the gate or the handler's validation
\* turned away at once.
Refuse(op, user, code, in) ==
  /\ resp' = [op |-> op, user |-> user, code |-> code, in |-> in,
              effects |-> NoEffects, body |-> <<>>]
  /\ UNCHANGED <<tenants, claims, activities, audit, reqs, now, call>>

\* The gate's answer when it does not call the handler: 403 from
\* requireScope, 500 from the app's error handler when requireScope threw.
GateCode(gate) == IF gate = "403" THEN 403 ELSE 500

\* The handler issued its first store call and awaits it.
Await(op, user, in, pc, loc) ==
  /\ reqs' = reqs (+) SetToBag({[pc |-> pc, op |-> op, user |-> user, in |-> in,
                                  effects |-> NoEffects, loc |-> loc]})
  /\ resp' = NoResp
  /\ UNCHANGED <<tenants, claims, activities, audit, now, call>>

\* The handler r goes on to its next await.
Goto(r, pc, effects, loc) ==
  reqs' = (reqs (-) SetToBag({r}))
            (+) SetToBag({[r EXCEPT !.pc = pc,
                                    !.effects = r.effects \cup effects,
                                    !.loc = loc]})

\* The handler r sends its response and ends.
Respond(r, code, effects, body) ==
  /\ reqs' = reqs (-) SetToBag({r})
  /\ resp' = [op |-> r.op, user |-> r.user, code |-> code, in |-> r.in,
              effects |-> r.effects \cup effects, body |-> body]

\* A rejected promise in an async handler: the request gets no success
\* response (the error handler's 500 at best).
Throw(r, effects) == Respond(r, 500, effects, <<>>)

\* ------------------------------------------------------ query helpers
Range(f) == {f[x] : x \in DOMAIN f}

\* The orders in which findMany may return `rows` under
\* orderBy: {[col]: 'desc'}: any order of the rows in which the column
\* never increases (rows that tie come in an order the store picks).
RECURSIVE OrderByDesc(_, _)
OrderByDesc(rows, col) ==
  IF rows = {} THEN {<<>>}
  ELSE LET greatest == {r \in rows : \A o \in rows : r[col] >= o[col]}
       IN  UNION { {<<r>> \o rest : rest \in OrderByDesc(rows \ {r}, col)} :
                   r \in greatest }

\* Array.prototype.slice(0, k), and findMany's take: k
Take(q, k) == SubSeq(q, 1, IF Len(q) < k THEN Len(q) ELSE k)

\* claims.filter((claim) => claim.status === status).length
CountStatus(q, status) == Cardinality({i \in 1..Len(q) : q[i].status = status})

RECURSIVE SumSeq(_)
SumSeq(q) == IF q = <<>> THEN 0 ELSE Head(q) + SumSeq(Tail(q))

\* A JavaScript number that need not be an integer, as a fraction n/d in
\* lowest terms with d > 0.
RECURSIVE Gcd(_, _)
Gcd(a, b) == IF b = 0 THEN a ELSE Gcd(b, a % b)
Abs(a) == IF a < 0 THEN -a ELSE a
Frac(n, d) ==
  LET g == Gcd(Abs(n), d) IN [n |-> n \div g, d |-> d \div g]

\* Math.round of n/d (d > 0): the nearest integer, halves rounded up.
MathRound(n, d) == (2 * n + d) \div (2 * d)

\* ------------------------------------------------- routes/tenants.ts
NameInputs == {Absent, Some("Acme Clinic")}
PlanInputs == {Absent, Some("starter"), Some("professional"), Some("gold")}

\* Tenant ids a client may ask for: the ids that exist and one that never
\* will.
TenantIdInputs == DOMAIN tenants \cup {TenantKey(0)}
ClaimIdInputs == DOMAIN claims \cup {ClaimKey(0)}

\* The audit record of each tenants route.
ListTenantsAudit(user) ==
  [action |-> "tenants:list", userId |-> user.id, resourceType |-> "tenant",
   resourceId |-> "list", phiInvolved |-> FALSE]

CreateTenantAudit(user, tenant) ==
  [action |-> "tenants:create", userId |-> user.id, resourceType |-> "tenant",
   resourceId |-> tenant.id, phiInvolved |-> FALSE]

GetTenantDetailAudit(user, tenant) ==
  [action |-> "tenants:get-detail", userId |-> user.id,
   resourceType |-> "tenant", resourceId |-> tenant.id, phiInvolved |-> FALSE]

\* prisma.tenant.findUnique({where: {id}}): the row, or null
TenantFindUnique(id) == IF id \in DOMAIN tenants THEN Some(tenants[id]) ELSE NULL

\* GET /tenants
BeginListTenants ==
  /\ CanBegin
  /\ \E hint \in RoleHints :
       LET user == mockUserMiddleware(hint[1], hint[2])
           gate == requireScope(<<"claims.read">>, Some(user))
       IN  IF gate # "next"
           THEN Refuse("ListTenants", user, GateCode(gate), NoInput)
           ELSE Await("ListTenants", user, NoInput, "tenant.findMany", <<>>)

ListTenantsFindMany(r) ==
  /\ r.op = "ListTenants" /\ r.pc = "tenant.findMany" /\ resp = NoResp
  /\ \E found \in OrderByDesc(Range(tenants), "createdAt") :
       /\ audit' = auditLog(ListTenantsAudit(r.user))
       /\ Respond(r, 200, {<<"audit", Len(audit) + 1>>}, found)
  /\ UNCHANGED <<tenants, claims, activities, now, call>>

\* POST /tenants
BeginCreateTenant ==
  /\ CanBegin
  /\ \E hint \in RoleHints :
       LET user == mockUserMiddleware(hint[1], hint[2])
           gate == requireScope(<<"claims.write">>, Some(user))
       IN  IF gate # "next"
           THEN Refuse("CreateTenant", user, GateCode(gate), NoInput)
           ELSE \E name \in NameInputs, plan \in PlanInputs :
                  LET in == [name |-> name, plan |-> plan]
                  IN  IF FalsyStr(name) \/ FalsyStr(plan)
                      THEN Refuse("CreateTenant", user, 400, in)
                      ELSE Await("CreateTenant", user, in, "tenant.create", <<>>)

CreateTenantCreate(r) ==
  /\ r.op = "CreateTenant" /\ r.pc = "tenant.create" /\ resp = NoResp
  /\ LET tenant == TenantCreate([name |-> Val(r.in.name),
                                 plan |-> Val(r.in.plan)])
     IN  /\ tenants' = (tenant.id :> tenant) @@ tenants
         /\ audit' = auditLog(CreateTenantAudit(r.user, tenant))
         /\ Respond(r, 200, {<<"tenant", tenant.id>>, <<"audit", Len(audit) + 1>>},
                    tenant)
  /\ UNCHANGED <<claims, activities, now, call>>

\* take: 20 and slice(0, 20) of the tenant detail
RecentLimit == 20

\* Mutant of TenantMetrics: the metrics of the recent claims only.
TenantMetricsRecentOnly(all) ==
  LET tclaims == Take(all, RecentLimit)
      IsProcessed(c) == c.processedAt # NULL
      totalClaims == Len(tclaims)
      approvedClaims == CountStatus(tclaims, "approved")
      processed == SelectSeq(tclaims, IsProcessed)
      durations == [i \in 1..Len(processed) |->
                      Val(processed[i].processedAt) - processed[i].submittedAt]
  IN  [ totalClaims |-> totalClaims,
        approvedClaims |-> approvedClaims,
        rejectedClaims |-> CountStatus(tclaims, "rejected"),
        pendingClaims |-> CountStatus(tclaims, "pending"),
        approvalRate |-> IF totalClaims = 0 THEN Frac(0, 1)
                         ELSE Frac(approvedClaims * 100, totalClaims),
        avgProcessingSeconds |->
          IF Len(durations) = 0 THEN 0
          ELSE MathRound(SumSeq(durations), Len(durations)) ]

\* Mutant of TenantMetrics: the metrics of the first claim returned.
TenantMetricsFirstOnly(all) == TenantMetricsRecentOnly(Take(all, 1))

\* The metrics object of the tenant detail, computed from tenant.claims.
TenantMetrics(tclaims) ==
  LET IsProcessed(c) == c.processedAt # NULL
      totalClaims == Len(tclaims)
      approvedClaims == CountStatus(tclaims, "approved")
      processed == SelectSeq(tclaims, IsProcessed)
      durations == [i \in 1..Len(processed) |->
                      Val(processed[i].processedAt) - processed[i].submittedAt]
  IN  [ totalClaims |-> totalClaims,
        approvedClaims |-> approvedClaims,
        rejectedClaims |-> CountStatus(tclaims, "rejected"),
        pendingClaims |-> CountStatus(tclaims, "pending"),
        approvalRate |-> IF totalClaims = 0 THEN Frac(0, 1)
                         ELSE Frac(approvedClaims * 100, totalClaims),
        avgProcessingSeconds |->
          IF Len(durations) = 0 THEN 0
          ELSE MathRound(SumSeq(durations), Len(durations)) ]

\* One entry of recentActivities: the activity joined with its claim's
\* patient name.
ActivityEntry(entry) ==
  [ id |-> entry.id, claimId |-> entry.claimId,
    patientName |-> IF entry.claimId \in DOMAIN claims
                    THEN claims[entry.claimId].patientName ELSE "",
    type |-> entry.type, message |-> entry.message,
    createdAt |-> entry.createdAt ]

\* GET /tenants/:id
BeginGetTenantDetail ==
  /\ CanBegin
  /\ \E hint \in RoleHints :
       LET user == mockUserMiddleware(hint[1], hint[2])
           gate == requireScope(<<"claims.read">>, Some(user))
       IN  IF gate # "next"
           THEN Refuse("GetTenantDetail", user, GateCode(gate), NoInput)
           ELSE \E id \in TenantIdInputs :
                  Await("GetTenantDetail", user, [id |-> id],
                  "tenant.findUnique", <<>>)

GetTenantDetailFindUnique(r) ==
  /\ r.op = "GetTenantDetail" /\ r.pc = "tenant.findUnique" /\ resp = NoResp
  /\ LET id == r.in.id
         tenant == TenantFindUnique(id)
     IN  IF tenant = NULL
         THEN /\ Respond(r, 404, {}, <<>>)
         ELSE \E tclaims \in OrderByDesc({c \in Range(claims) : c.tenantId = id},
                                         "submittedAt") :
                /\ Goto(r, "claimActivity.findMany", {},
                        [tenant |-> Val(tenant), claims |-> tclaims])
                /\ resp' = NoResp
  /\ UNCHANGED <<tenants, claims, activities, audit, now, call>>

GetTenantDetailFindActivities(r) ==
  /\ r.op = "GetTenantDetail" /\ r.pc = "claimActivity.findMany" /\ resp = NoResp
  /\ LET id == r.in.id
         tenant == r.loc.tenant
         tclaims == r.loc.claims
     IN  \E found \in OrderByDesc({a \in Range(activities) : a.tenantId = id},
                                  "createdAt") :
           LET taken == Take(found, RecentLimit)
               payload ==
                 [ id |-> tenant.id, name |-> tenant.name, plan |-> tenant.plan,
                   status |-> tenant.status,
                   claimsProcessed |-> tenant.claimsProcessed,
                   lastActivity |-> tenant.lastActivity,
                   metrics |-> TenantMetrics(tclaims),
                   recentClaims |-> Take(tclaims, RecentLimit),
                   recentActivities |->
                     [i \in 1..Len(taken) |-> ActivityEntry(taken[i])] ]
           IN  /\ audit' = auditLog(GetTenantDetailAudit(r.user, tenant))
               /\ Respond(r, 200, {<<"audit", Len(audit) + 1>>}, payload)
  /\ UNCHANGED <<tenants, claims, activities, now, call>>

\* -------------------------------------------------- routes/claims.ts
AmountInputs == {Absent, Some(0), Some(-5), Some(1000)}

\* A complete body of POST /claims for tenant id `tid` and amount `amt`.
ClaimBody(tid, amt) ==
  [ tenantId |-> Some(tid), patientName |-> Some("Ahmed"),
    patientId |-> Some("PAT-1"), nationalId |-> Some("1234567890"),
    amount |-> amt, diagnosis |-> Some("Flu") ]

RequiredText == {"tenantId", "patientName", "patientId", "nationalId", "diagnosis"}

\* The bodies sent: complete ones with each amount, bodies that lack one
\* of the other fields, and the body that gives neither patientId nor
\* nationalId.
ClaimBodies ==
  LET full(tid) == ClaimBody(tid, Some(1000))
  IN  UNION { {ClaimBody(tid, amt) : amt \in AmountInputs}
              \cup {[full(tid) EXCEPT ![f] = Absent] : f \in RequiredText}
              \cup {[full(tid) EXCEPT !["patientId"] = Absent,
                                      !["nationalId"] = Absent]}
              : tid \in TenantIdInputs }

StatusInputs ==
  {Absent, Some(""), Some("pending"), Some("approved"), Some("rejected"),
   Some("archived")}

KnownStatuses == <<"pending", "approved", "rejected">>

MessageInputs ==
  { Absent, Some(<<>>), Some(<<"o", "k">>), Some(<<" ", "o", "k", " ">>),
    Some(<<" ", " ", " ">>), Some(<<"s", "e", "e">>),
    Some(<<" ", "s", "e", "e", " ">>) }

MinNoteLength == 3
PreviewLength == 80

\* The audit record of each claims route.
ListClaimsAudit(user) ==
  [action |-> "claims:list", userId |-> user.id, resourceType |-> "claim",
   resourceId |-> "list", phiInvolved |-> TRUE]

GetClaimAudit(user, claim) ==
  [action |-> "claims:get", userId |-> user.id, resourceType |-> "claim",
   resourceId |-> claim.id, phiInvolved |-> TRUE]

CreateClaimAudit(user, claim) ==
  [action |-> "claims:create", userId |-> user.id, resourceType |-> "claim",
   resourceId |-> claim.id, phiInvolved |-> TRUE]

\* Mutant of UpdateStatusAudit: the record is not flagged as PHI.
UpdateStatusAuditNoPhi(user, id, status) ==
  [action |-> "claims:update-status", userId |-> user.id,
   resourceType |-> "claim", resourceId |-> id, phiInvolved |-> FALSE,
   meta |-> [status |-> status]]

UpdateStatusAudit(user, id, status) ==
  [action |-> "claims:update-status", userId |-> user.id,
   resourceType |-> "claim", resourceId |-> id, phiInvolved |-> TRUE,
   meta |-> [status |-> status]]

AppendNoteAudit(user, claim, message) ==
  [action |-> "claims:add-note", userId |-> user.id, resourceType |-> "claim",
   resourceId |-> claim.id, phiInvolved |-> TRUE,
   meta |-> [message |-> Slice(Trim(message), 0, PreviewLength)]]

\* Mutant of ClaimFindUnique: the where clause is dropped (findFirst).
ClaimFindFirst(id) ==
  IF id \in DOMAIN claims THEN Some(claims[id])
  ELSE IF DOMAIN claims = {} THEN NULL
  ELSE Some(claims[CHOOSE k \in DOMAIN claims : TRUE])

\* prisma.claim.findUnique({where: {id}}): the row, or null
ClaimFindUnique(id) == IF id \in DOMAIN claims THEN Some(claims[id]) ELSE NULL

\* GET /claims
BeginListClaims ==
  /\ CanBegin
  /\ \E hint \in RoleHints :
       LET user == mockUserMiddleware(hint[1], hint[2])
           gate == requireScope(<<"claims.read">>, Some(user))
       IN  IF gate # "next"
           THEN Refuse("ListClaims", user, GateCode(gate), NoInput)
           ELSE \E tenantId \in {Absent} \cup {Some(t) : t \in TenantIdInputs} :
                  Await("ListClaims", user, [tenantId |-> tenantId],
                  "claim.findMany", <<>>)

ListClaimsFindMany(r) ==
  /\ r.op = "ListClaims" /\ r.pc = "claim.findMany" /\ resp = NoResp
  /\ LET tenantId == r.in.tenantId
         where == IF ~FalsyStr(tenantId)
                  THEN {c \in Range(claims) : c.tenantId = Val(tenantId)}
                  ELSE Range(claims)
     IN  \E found \in OrderByDesc(where, "submittedAt") :
           /\ audit' = auditLog(ListClaimsAudit(r.user))
           /\ Respond(r, 200, {<<"audit", Len(audit) + 1>>}, found)
  /\ UNCHANGED <<tenants, claims, activities, now, call>>

\* GET /claims/:id
BeginGetClaim ==
  /\ CanBegin
  /\ \E hint \in RoleHints :
       LET user == mockUserMiddleware(hint[1], hint[2])
           gate == requireScope(<<"claims.read">>, Some(user))
       IN  IF gate # "next"
           THEN Refuse("GetClaim", user, GateCode(gate), NoInput)
           ELSE \E id \in ClaimIdInputs :
                  Await("GetClaim", user, [id |-> id], "claim.findUnique", <<>>)

GetClaimFindUnique(r) ==
  /\ r.op = "GetClaim" /\ r.pc = "claim.findUnique" /\ resp = NoResp
  /\ LET claim == ClaimFindUnique(r.in.id)
     IN  IF claim = NULL
         THEN /\ Respond(r, 404, {}, <<>>)
              /\ UNCHANGED audit
         ELSE /\ audit' = auditLog(GetClaimAudit(r.user, Val(claim)))
              /\ Respond(r, 200, {<<"audit", Len(audit) + 1>>}, Val(claim))
  /\ UNCHANGED <<tenants, claims, activities, now, call>>

\* POST /claims: the check at the top of the handler.
MissingClaimFields(body) ==
  \/ FalsyStr(body.tenantId)
  \/ FalsyStr(body.patientName)
  \/ FalsyStr(body.patientId)
  \/ FalsyStr(body.nationalId)
  \/ FalsyNum(body.amount)
  \/ FalsyStr(body.diagnosis)

\* The data object handed to prisma.claim.create; submittedAt is read off
\* the clock when the object is built.
NewClaimData(body) ==
  [ tenantId |-> Val(body.tenantId), patientName |-> Val(body.patientName),
    patientId |-> Val(body.patientId), nationalId |-> Val(body.nationalId),
    amount |-> Val(body.amount), diagnosis |-> Val(body.diagnosis),
    status |-> "pending", submittedAt |-> now, processedAt |-> NULL,
    procedures |-> "[]", provider |-> "Unknown", insurancePolicy |-> "Unknown",
    nphiesStatus |-> "pending_verification", preAuthRequired |-> FALSE ]

\* Mutant of CreatedActivityData: the activity is typed as a status change.
CreatedActivityDataAsStatus(claim) ==
  [claimId |-> claim.id, tenantId |-> claim.tenantId, type |-> "status",
   message |-> <<"Claim created">>]

\* The data of the activity written after the claim.
CreatedActivityData(claim) ==
  [claimId |-> claim.id, tenantId |-> claim.tenantId, type |-> "created",
   message |-> <<"Claim created">>]

\* POST /claims
BeginCreateClaim ==
  /\ CanBegin
  /\ \E hint \in RoleHints :
       LET user == mockUserMiddleware(hint[1], hint[2])
           gate == requireScope(<<"claims.write">>, Some(user))
       IN  IF gate # "next"
           THEN Refuse("CreateClaim", user, GateCode(gate), NoInput)
           ELSE \E body \in ClaimBodies :
                  IF MissingClaimFields(body)
                  THEN Refuse("CreateClaim", user, 400, body)
                  ELSE Await("CreateClaim", user, body, "claim.create",
                  NewClaimData(body))

CreateClaimCreate(r) ==
  /\ r.op = "CreateClaim" /\ r.pc = "claim.create" /\ resp = NoResp
  /\ LET data == r.loc
     IN  IF ~ClaimTenantFk(data.tenantId)
         THEN /\ Throw(r, {})
              /\ UNCHANGED <<claims, audit>>
         ELSE LET claim == ClaimCreate(data)
              IN  /\ claims' = (claim.id :> claim) @@ claims
                  /\ audit' = auditLog(CreateClaimAudit(r.user, claim))
                  /\ Goto(r, "claimActivity.create",
                          {<<"claim", claim.id>>, <<"audit", Len(audit) + 1>>},
                          claim)
                  /\ resp' = NoResp
  /\ UNCHANGED <<tenants, activities, now, call>>

CreateClaimActivity(r) ==
  /\ r.op = "CreateClaim" /\ r.pc = "claimActivity.create" /\ resp = NoResp
  /\ LET claim == r.loc
         activity == ActivityCreate(CreatedActivityData(claim))
     IN  /\ activities' = Append(activities, activity)
         /\ Respond(r, 200, {<<"activity", activity.id>>}, claim)
  /\ UNCHANGED <<tenants, claims, audit, now, call>>

\* Mutant of InvalidStatus: only a missing status is refused.
InvalidStatusMissingOnly(status) == FalsyStr(status)

\* PATCH /claims/:id/status: the check at the top of the handler.
InvalidStatus(status) ==
  FalsyStr(status) \/ ~Includes(KnownStatuses, Val(status))

\* Mutant of ProcessedAtFor: only an approval stamps processedAt.
ProcessedAtApprovedOnly(status) ==
  IF status = "approved" THEN Some(now) ELSE NULL

\* processedAt of the update: the clock for a terminal status, else null.
ProcessedAtFor(status) ==
  IF status = "approved" \/ status = "rejected" THEN Some(now) ELSE NULL

\* The message of the status activity: `Status updated to ${status}`
StatusMessage(status) == <<"Status updated to ", status>>

\* The data of the activity written after the update.
StatusActivityData(updated, status) ==
  [claimId |-> updated.id, tenantId |-> updated.tenantId, type |-> "status",
   message |-> StatusMessage(status)]

\* PATCH /claims/:id/status
BeginUpdateStatus ==
  /\ CanBegin
  /\ \E hint \in RoleHints :
       LET user == mockUserMiddleware(hint[1], hint[2])
           gate == requireScope(<<"claims.write">>, Some(user))
       IN  IF gate # "next"
           THEN Refuse("UpdateStatus", user, GateCode(gate), NoInput)
           ELSE \E id \in ClaimIdInputs, status \in StatusInputs :
                  LET in == [id |-> id, status |-> status]
                  IN  IF InvalidStatus(status)
                      THEN Refuse("UpdateStatus", user, 400, in)
                      ELSE Await("UpdateStatus", user, in, "claim.findUnique", <<>>)

UpdateStatusFindUnique(r) ==
  /\ r.op = "UpdateStatus" /\ r.pc = "claim.findUnique" /\ resp = NoResp
  /\ LET status == Val(r.in.status)
         claim == ClaimFindUnique(r.in.id)
     IN  IF claim = NULL
         THEN Respond(r, 404, {}, <<>>)
         ELSE /\ Goto(r, "claim.update", {},
                      [status |-> status, processedAt |-> ProcessedAtFor(status),
                       updatedAt |-> now])
              /\ resp' = NoResp
  /\ UNCHANGED <<tenants, claims, activities, audit, now, call>>

\* Mutant of UpdateStatusUpdate: the update writes the status alone.
UpdateStatusUpdateStatusOnly(r) ==
  /\ r.op = "UpdateStatus" /\ r.pc = "claim.update" /\ resp = NoResp
  /\ LET id == r.in.id
     IN  IF id \notin DOMAIN claims
         THEN \* the store's "record to update not found"
              /\ Throw(r, {})
              /\ UNCHANGED <<claims, audit>>
         ELSE LET updated == ClaimUpdate(id, [status |-> r.loc.status])
              IN  /\ claims' = [claims EXCEPT ![id] = updated]
                  /\ audit' = auditLog(UpdateStatusAudit(r.user, id,
                                                         Val(r.in.status)))
                  /\ Goto(r, "claimActivity.create",
                          {<<"claim", id>>, <<"audit", Len(audit) + 1>>}, updated)
                  /\ resp' = NoResp
  /\ UNCHANGED <<tenants, activities, now, call>>

UpdateStatusUpdate(r) ==
  /\ r.op = "UpdateStatus" /\ r.pc = "claim.update" /\ resp = NoResp
  /\ LET id == r.in.id
     IN  IF id \notin DOMAIN claims
         THEN \* the store's "record to update not found"
              /\ Throw(r, {})
              /\ UNCHANGED <<claims, audit>>
         ELSE LET updated == ClaimUpdate(id, r.loc)
              IN  /\ claims' = [claims EXCEPT ![id] = updated]
                  /\ audit' = auditLog(UpdateStatusAudit(r.user, id,
                                                         Val(r.in.status)))
                  /\ Goto(r, "claimActivity.create",
                          {<<"claim", id>>, <<"audit", Len(audit) + 1>>}, updated)
                  /\ resp' = NoResp
  /\ UNCHANGED <<tenants, activities, now, call>>

\* Mutant of UpdateStatusActivity: the claim's activity is overwritten
\* (an update where a create is meant).
UpdateStatusActivityOverwrite(r) ==
  /\ r.op = "UpdateStatus" /\ r.pc = "claimActivity.create" /\ resp = NoResp
  /\ LET activity == ActivityCreate(StatusActivityData(r.loc, Val(r.in.status)))
         mine == {i \in 1..Len(activities) : activities[i].claimId = r.in.id}
     IN  /\ activities' = [i \in 1..Len(activities) |->
                             IF i \in mine THEN activity ELSE activities[i]]
         /\ Respond(r, 200, {<<"activity", activity.id>>}, r.loc)
  /\ UNCHANGED <<tenants, claims, audit, now, call>>

UpdateStatusActivity(r) ==
  /\ r.op = "UpdateStatus" /\ r.pc = "claimActivity.create" /\ resp = NoResp
  /\ LET updated == r.loc
         activity == ActivityCreate(StatusActivityData(updated, Val(r.in.status)))
     IN  /\ activities' = Append(activities, activity)
         /\ Respond(r, 200, {<<"activity", activity.id>>}, updated)
  /\ UNCHANGED <<tenants, claims, audit, now, call>>

\* GET /claims/:id/activity
BeginGetTimeline ==
  /\ CanBegin
  /\ \E hint \in RoleHints :
       LET user == mockUserMiddleware(hint[1], hint[2])
           gate == requireScope(<<"claims.read">>, Some(user))
       IN  IF gate # "next"
           THEN Refuse("GetTimeline", user, GateCode(gate), NoInput)
           ELSE \E id \in ClaimIdInputs :
                  Await("GetTimeline", user, [id |-> id], "claim.findUnique", <<>>)

GetTimelineFindUnique(r) ==
  /\ r.op = "GetTimeline" /\ r.pc = "claim.findUnique" /\ resp = NoResp
  /\ IF ClaimFindUnique(r.in.id) = NULL
     THEN Respond(r, 404, {}, <<>>)
     ELSE /\ Goto(r, "claimActivity.findMany", {}, <<>>)
          /\ resp' = NoResp
  /\ UNCHANGED <<tenants, claims, activities, audit, now, call>>

GetTimelineFindMany(r) ==
  /\ r.op = "GetTimeline" /\ r.pc = "claimActivity.findMany" /\ resp = NoResp
  /\ \E found \in OrderByDesc({a \in Range(activities) : a.claimId = r.in.id},
                              "createdAt") :
       Respond(r, 200, {}, found)
  /\ UNCHANGED <<tenants, claims, activities, audit, now, call>>

\* Mutant of InvalidMessage: the length is taken before trimming.
InvalidMessageUntrimmed(message) ==
  FalsyText(message) \/ Len(Val(message)) < MinNoteLength

\* POST /claims/:id/activity: the check at the top of the handler.
InvalidMessage(message) ==
  FalsyText(message) \/ Len(Trim(Val(message))) < MinNoteLength

\* The data of the note activity.
NoteActivityData(claim, message) ==
  [claimId |-> claim.id, tenantId |-> claim.tenantId, type |-> "note",
   message |-> Trim(message)]

\* POST /claims/:id/activity
BeginAppendNote ==
  /\ CanBegin
  /\ \E hint \in RoleHints :
       LET user == mockUserMiddleware(hint[1], hint[2])
           gate == requireScope(<<"claims.write">>, Some(user))
       IN  IF gate # "next"
           THEN Refuse("AppendNote", user, GateCode(gate), NoInput)
           ELSE \E id \in ClaimIdInputs, message \in MessageInputs :
                  LET in == [id |-> id, message |-> message]
                  IN  IF InvalidMessage(message)
                      THEN Refuse("AppendNote", user, 400, in)
                      ELSE Await("AppendNote", user, in, "claim.findUnique", <<>>)

AppendNoteFindUnique(r) ==
  /\ r.op = "AppendNote" /\ r.pc = "claim.findUnique" /\ resp = NoResp
  /\ LET claim == ClaimFindUnique(r.in.id)
     IN  IF claim = NULL
         THEN Respond(r, 404, {}, <<>>)
         ELSE /\ Goto(r, "claimActivity.create", {}, Val(claim))
              /\ resp' = NoResp
  /\ UNCHANGED <<tenants, claims, activities, audit, now, call>>

AppendNoteActivity(r) ==
  /\ r.op = "AppendNote" /\ r.pc = "claimActivity.create" /\ resp = NoResp
  /\ LET claim == r.loc
         message == Val(r.in.message)
         activity == ActivityCreate(NoteActivityData(claim, message))
     IN  /\ activities' = Append(activities, activity)
         /\ audit' = auditLog(AppendNoteAudit(r.user, claim, message))
         /\ Respond(r, 201, {<<"activity", activity.id>>, <<"audit", Len(audit) + 1>>},
                    activity)
  /\ UNCHANGED <<tenants, claims, now, call>>

\* ------------------------------------------------ routes/analytics.ts
\* Dates. The clock counts ticks, TicksPerMonth to the calendar month, and
\* tick 0 falls in November 2023 so that a year ends within the months the
\* model spans.
TicksPerMonth == 2
EpochYear == 2023
EpochMonth == 10

MonthNames ==
  <<"Jan", "Feb", "Mar", "Apr", "May", "Jun",
    "Jul", "Aug", "Sep", "Oct", "Nov", "Dec">>

MonthsOf(date) == EpochYear * 12 + EpochMonth + (date \div TicksPerMonth)
\* Date.prototype.getFullYear, getMonth
GetFullYear(date) == MonthsOf(date) \div 12
GetMonth(date) == MonthsOf(date) % 12
\* date.toLocaleString('en-US', {month: 'short', year: 'numeric'})
ToLocaleMonthYear(date) == <<MonthNames[GetMonth(date) + 1], " ", GetFullYear(date)>>

\* The orders in which findMany may return `rows` under
\* orderBy: {[col]: 'asc'}: rows that tie come in an order the store picks.
RECURSIVE OrderByAsc(_, _)
OrderByAsc(rows, col) ==
  IF rows = {} THEN {<<>>}
  ELSE LET least == {r \in rows : \A o \in rows : r[col] <= o[col]}
       IN  UNION { {<<r>> \o rest : rest \in OrderByAsc(rows \ {r}, col)} :
                   r \in least }

\* include: {tenant: {select: {id, name, plan}}}
WithTenant(claim) ==
  [tenant |-> [id |-> claim.tenantId, name |-> tenants[claim.tenantId].name,
               plan |-> tenants[claim.tenantId].plan]] @@ claim

\* Mutant of SortBy: the array is left in the order it has.
SortByNothing(arr, col, desc) == arr

\* Array.prototype.sort((a, b) => a[col] - b[col]), or b[col] - a[col] when
\* `desc`: a stable sort, elements that compare equal keep their order.
RECURSIVE SortBy(_, _, _)
SortBy(arr, col, desc) ==
  IF arr = <<>> THEN <<>>
  ELSE LET n == Len(arr)
           x == arr[n]
           sorted == SortBy(SubSeq(arr, 1, n - 1), col, desc)
           before == {i \in 1..Len(sorted) :
                        IF desc THEN sorted[i][col] >= x[col]
                                ELSE sorted[i][col] <= x[col]}
           k == Cardinality({i \in 1..Len(sorted) : \E j \in before : i <= j})
       IN  SubSeq(sorted, 1, k) \o <<x>> \o SubSeq(sorted, k + 1, Len(sorted))

\* The keys of a Map filled by walking `keys`: each key once, in the order
\* of its first occurrence.
RECURSIVE InsertionOrder(_)
InsertionOrder(keys) ==
  IF keys = <<>> THEN <<>>
  ELSE LET n == Len(keys)
           front == InsertionOrder(SubSeq(keys, 1, n - 1))
       IN  IF Includes(front, keys[n]) THEN front ELSE Append(front, keys[n])

\* Mutant of TakeLast: slice(0, k), the first k.
TakeFirst(arr, k) == SubSeq(arr, 1, IF Len(arr) < k THEN Len(arr) ELSE k)

\* Array.prototype.slice(-k)
TakeLast(arr, k) == SubSeq(arr, IF Len(arr) > k THEN Len(arr) - k + 1 ELSE 1, Len(arr))

\* Number(x.toFixed(1)) of the number n/d >= 0: the nearest multiple of a
\* tenth.
ToFixed1(n, d) == Frac((20 * n + d) \div (2 * d), 10)

TrendLimit == 6
LeaderboardLimit == 5

\* Mutant of DashboardFilter: the to date is not applied.
DashboardFilterNoTo(found, query) ==
  LET planFilter == IF ~FalsyStr(query.plan) /\ query.plan # Some("all")
                    THEN query.plan ELSE Absent
      Keep(claim) ==
        /\ query.from = Absent \/ claim.submittedAt >= Val(query.from)
        /\ planFilter = Absent \/ claim.tenant.plan = Val(planFilter)
  IN  SelectSeq(found, Keep)

\* The query of the dashboard: ?from=&to=&plan=
DashboardFilter(found, query) ==
  LET planFilter == IF ~FalsyStr(query.plan) /\ query.plan # Some("all")
                    THEN query.plan ELSE Absent
      Keep(claim) ==
        LET submitted == claim.submittedAt
            afterFrom == query.from = Absent \/ submitted >= Val(query.from)
            beforeTo == query.to = Absent \/ submitted <= Val(query.to)
            matchesPlan == planFilter = Absent \/ claim.tenant.plan = Val(planFilter)
        IN  afterFrom /\ beforeTo /\ matchesPlan
  IN  SelectSeq(found, Keep)

\* statusTrends: the claims bucketed by month, the last six months.
StatusTrends(filteredClaims) ==
  LET n == Len(filteredClaims)
      keyOf(i) == ToLocaleMonthYear(filteredClaims[i].submittedAt)
      keys == InsertionOrder([i \in 1..n |-> keyOf(i)])
      count(key, status) ==
        Cardinality({i \in 1..n : keyOf(i) = key /\ filteredClaims[i].status = status})
      first(key) == CHOOSE i \in 1..n : keyOf(i) = key /\ \A j \in 1..(i - 1) : keyOf(j) # key
      trendBuckets ==
        [k \in 1..Len(keys) |->
           [ name |-> keys[k],
             monthIndex |-> GetFullYear(filteredClaims[first(keys[k])].submittedAt) * 12
                              + GetMonth(filteredClaims[first(keys[k])].submittedAt),
             approved |-> count(keys[k], "approved"),
             pending |-> count(keys[k], "pending"),
             rejected |-> count(keys[k], "rejected") ]]
      sorted == SortBy(trendBuckets, "monthIndex", FALSE)
      rest == [k \in 1..Len(sorted) |->
                 [ name |-> sorted[k].name, approved |-> sorted[k].approved,
                   pending |-> sorted[k].pending, rejected |-> sorted[k].rejected ]]
  IN  TakeLast(rest, TrendLimit)

\* tenantLeaderboard: the claims grouped by tenant, the five largest.
TenantLeaderboard(filteredClaims) ==
  LET n == Len(filteredClaims)
      ids == InsertionOrder([i \in 1..n |-> filteredClaims[i].tenantId])
      of(id) == SelectSeq(filteredClaims, LAMBDA c : c.tenantId = id)
      entries ==
        [k \in 1..Len(ids) |->
           LET mine == of(ids[k])
               total == Len(mine)
               approved == CountStatus(mine, "approved")
           IN  [ id |-> ids[k], name |-> mine[1].tenant.name,
                 plan |-> mine[1].tenant.plan, total |-> total,
                 approved |-> approved,
                 rejected |-> CountStatus(mine, "rejected"),
                 pending |-> CountStatus(mine, "pending"),
                 approvalRate |-> IF total = 0 THEN Frac(0, 1)
                                  ELSE Frac(approved * 100, total) ]]
  IN  Take(SortBy(entries, "total", TRUE), LeaderboardLimit)

\* Mutant of Insights: a rejection increase of 5 already warns.
InsightsFromFive(tenantLeaderboard, statusTrends) ==
  LET Less(a, b) == a.n * b.d < b.n * a.d
      busy == SelectSeq(tenantLeaderboard, LAMBDA e : e.total >= 10)
      lowest == CHOOSE i \in 1..Len(busy) :
                  /\ \A j \in 1..Len(busy) : ~Less(busy[j].approvalRate, busy[i].approvalRate)
                  /\ \A j \in 1..(i - 1) : Less(busy[i].approvalRate, busy[j].approvalRate)
      waiting == SortBy(SelectSeq(tenantLeaderboard, LAMBDA e : e.pending > 0),
                        "pending", TRUE)
      last == Len(statusTrends)
      low == IF tenantLeaderboard # <<>> /\ busy # <<>>
                /\ Less(busy[lowest].approvalRate, Frac(70, 1))
             THEN << <<"Tenant ", busy[lowest].name, " has a low approval rate (",
                       ToFixed1(busy[lowest].approvalRate.n, busy[lowest].approvalRate.d),
                       "%) - consider reviewing rejection reasons.">> >>
             ELSE <<>>
      pend == IF tenantLeaderboard # <<>> /\ waiting # <<>>
              THEN << <<"Tenant ", waiting[1].name, " has ", waiting[1].pending,
                        " pending claims awaiting action.">> >>
              ELSE <<>>
      trend == IF last >= 2
                  /\ statusTrends[last].rejected - statusTrends[last - 1].rejected >= 5
               THEN << <<"Rejected claims increased week-over-week">> >>
               ELSE <<>>
  IN  low \o pend \o trend

\* insights: the three heuristics, in order.
Insights(tenantLeaderboard, statusTrends) ==
  LET Less(a, b) == a.n * b.d < b.n * a.d
      busy == SelectSeq(tenantLeaderboard, LAMBDA e : e.total >= 10)
      lowest == CHOOSE i \in 1..Len(busy) :
                  /\ \A j \in 1..Len(busy) : ~Less(busy[j].approvalRate, busy[i].approvalRate)
                  /\ \A j \in 1..(i - 1) : Less(busy[i].approvalRate, busy[j].approvalRate)
      waiting == SortBy(SelectSeq(tenantLeaderboard, LAMBDA e : e.pending > 0),
                        "pending", TRUE)
      last == Len(statusTrends)
      low == IF tenantLeaderboard # <<>> /\ busy # <<>>
                /\ Less(busy[lowest].approvalRate, Frac(70, 1))
             THEN << <<"Tenant ", busy[lowest].name, " has a low approval rate (",
                       ToFixed1(busy[lowest].approvalRate.n, busy[lowest].approvalRate.d),
                       "%) - consider reviewing rejection reasons.">> >>
             ELSE <<>>
      pend == IF tenantLeaderboard # <<>> /\ waiting # <<>>
              THEN << <<"Tenant ", waiting[1].name, " has ", waiting[1].pending,
                        " pending claims awaiting action.">> >>
              ELSE <<>>
      trend == IF last >= 2
                  /\ statusTrends[last].rejected - statusTrends[last - 1].rejected > 5
               THEN << <<"Rejected claims increased week-over-week">> >>
               ELSE <<>>
  IN  low \o pend \o trend

\* The data of the dashboard response, computed from the filtered claims.
DashboardData(filteredClaims) ==
  LET totalClaims == Len(filteredClaims)
      autoApproved == CountStatus(filteredClaims, "approved")
      processed == SelectSeq(filteredClaims, LAMBDA c : c.processedAt # NULL)
      durations == [i \in 1..Len(processed) |->
                      Val(processed[i].processedAt) - processed[i].submittedAt]
      statusTrends == StatusTrends(filteredClaims)
      tenantLeaderboard == TenantLeaderboard(filteredClaims)
  IN  [ totalClaims |-> totalClaims,
        activePatients |->
          Cardinality({filteredClaims[i].patientId : i \in 1..totalClaims}),
        autoApproved |-> autoApproved,
        avgProcessingTime |->
          IF Len(durations) = 0 THEN <<0, "s">>
          ELSE <<MathRound(SumSeq(durations), Len(durations)), "s">>,
        monthlyGrowth |-> 12,
        approvalRate |-> IF totalClaims = 0 THEN Frac(0, 1)
                         ELSE ToFixed1(autoApproved * 100, totalClaims),
        statusTrends |-> statusTrends,
        tenantLeaderboard |-> tenantLeaderboard,
        insights |-> Insights(tenantLeaderboard, statusTrends) ]

\* The audit record of the dashboard, as the object literal spells it.
DashboardAudit(user) ==
  [action |-> "analytics:dashboard", userId |-> user.id,
   resourceType |-> "analytics", resourceId |-> "dashboard",
   phi_involved |-> FALSE]

\* The queries sent: no filter, each filter alone, and all three.
DashboardQueries ==
  { [from |-> Absent, to |-> Absent, plan |-> Absent],
    [from |-> Some(1), to |-> Absent, plan |-> Absent],
    [from |-> Absent, to |-> Some(0), plan |-> Absent],
    [from |-> Absent, to |-> Absent, plan |-> Some("starter")],
    [from |-> Some(0), to |-> Some(1), plan |-> Some("all")] }

\* GET /analytics/dashboard
BeginDashboard ==
  /\ CanBegin
  /\ \E hint \in RoleHints :
       LET user == mockUserMiddleware(hint[1], hint[2])
           gate == requireScope(<<"analytics.read">>, Some(user))
       IN  IF gate # "next"
           THEN Refuse("Dashboard", user, GateCode(gate), NoInput)
           ELSE \E query \in DashboardQueries :
                  Await("Dashboard", user, query, "claim.findMany", <<>>)

\* Mutant of DashboardFindMany: only the processed claims are read.
DashboardFindManyProcessed(r) ==
  /\ r.op = "Dashboard" /\ r.pc = "claim.findMany" /\ resp = NoResp
  /\ \E found \in OrderByAsc({WithTenant(c) : c \in {x \in Range(claims) : x.processedAt # NULL}},
                             "submittedAt") :
       /\ audit' = auditLog(DashboardAudit(r.user))
       /\ Respond(r, 200, {<<"audit", Len(audit) + 1>>},
                  DashboardData(DashboardFilter(found, r.in)))
  /\ UNCHANGED <<tenants, claims, activities, now, call>>

DashboardFindMany(r) ==
  /\ r.op = "Dashboard" /\ r.pc = "claim.findMany" /\ resp = NoResp
  /\ \E found \in OrderByAsc({WithTenant(c) : c \in Range(claims)}, "submittedAt") :
       /\ audit' = auditLog(DashboardAudit(r.user))
       /\ Respond(r, 200, {<<"audit", Len(audit) + 1>>},
                  DashboardData(DashboardFilter(found, r.in)))
  /\ UNCHANGED <<tenants, claims, activities, now, call>>

\* ------------------------------------------------------ prisma/seed.ts
\* Rows written straight to the store, as the seed script writes them: no
\* router, no gate and no audit record are involved.

\* prisma.tenant.create({data: {name, plan, ...}})
SeedTenantRow(plan) ==
  /\ resp = NoResp /\ call = NoCall
  /\ LET tenant == TenantCreate([name |-> "Saudi German Hospital", plan |-> plan])
     IN  tenants' = (tenant.id :> tenant) @@ tenants

\* One row of prisma.claim.createMany: a claim of tenant `tid` in `status`,
\* submitted at `at` and, when its status is terminal, processed later.
SeedClaimRow(tid, status, at) ==
  /\ resp = NoResp /\ call = NoCall
  /\ ClaimTenantFk(tid)
  /\ LET data == [ tenantId |-> tid, patientName |-> "Fatima",
                   patientId |-> "PAT-2", nationalId |-> "0987654321",
                   amount |-> 1800, diagnosis |-> "Diabetes", status |-> status,
                   submittedAt |-> at,
                   processedAt |-> IF status = "pending" THEN NULL
                                   ELSE Some(at + 1),
                   procedures |-> "[]", provider |-> "Unknown",
                   insurancePolicy |-> "Unknown",
                   nphiesStatus |-> "verified", preAuthRequired |-> FALSE ]
         claim == ClaimCreate(data)
     IN  claims' = (claim.id :> claim) @@ claims

\* One row of prisma.claimActivity.createMany for the claim `cid`.
SeedActivityRow(cid, type) ==
  /\ resp = NoResp /\ call = NoCall
  /\ cid \in DOMAIN claims
  /\ activities' =
       Append(activities,
              ActivityCreate([claimId |-> cid, tenantId |-> claims[cid].tenantId,
                              type |-> type, message |-> <<"seeded ", type>>]))

\* ------------------------------------------------------- specification
Next ==
  \/ Tick
  \/ Deliver
  \/ BeginListTenants
  \/ BeginCreateTenant
  \/ BeginGetTenantDetail
  \/ BeginListClaims
  \/ BeginGetClaim
  \/ BeginCreateClaim
  \/ BeginUpdateStatus
  \/ BeginGetTimeline
  \/ BeginAppendNote
  \/ BeginDashboard
  \/ \E r \in BagToSet(reqs) : ListTenantsFindMany(r)
  \/ \E r \in BagToSet(reqs) : CreateTenantCreate(r)
  \/ \E r \in BagToSet(reqs) : GetTenantDetailFindUnique(r)
  \/ \E r \in BagToSet(reqs) : GetTenantDetailFindActivities(r)
  \/ \E r \in BagToSet(reqs) : ListClaimsFindMany(r)
  \/ \E r \in BagToSet(reqs) : GetClaimFindUnique(r)
  \/ \E r \in BagToSet(reqs) : CreateClaimCreate(r)
  \/ \E r \in BagToSet(reqs) : CreateClaimActivity(r)
  \/ \E r \in BagToSet(reqs) : UpdateStatusFindUnique(r)
  \/ \E r \in BagToSet(reqs) : UpdateStatusUpdate(r)
  \/ \E r \in BagToSet(reqs) : UpdateStatusActivity(r)
  \/ \E r \in BagToSet(reqs) : GetTimelineFindUnique(r)
  \/ \E r \in BagToSet(reqs) : GetTimelineFindMany(r)
  \/ \E r \in BagToSet(reqs) : AppendNoteFindUnique(r)
  \/ \E r \in BagToSet(reqs) : AppendNoteActivity(r)
  \/ \E r \in BagToSet(reqs) : DashboardFindMany(r)

Spec == Init /\ [][Next]_vars

\* ------------------------------------------- requireScope on its own
\* The permission scopes of the role table.
Scopes ==
  {"claims.read", "claims.write", "analytics.read", "exports.write",
   "audit.read", "admin.manage"}

\* Longest requiredScopes array handed to requireScope.
MaxRequired == 2

RequiredInputs == UNION {[1..n -> Scopes] : n \in 0..MaxRequired}

\* req.user of the request: not set, set by mockUserMiddleware for a role
\* hint, or a user that holds no scope.
UserInputs ==
  {Absent}
    \cup {Some(mockUserMiddleware(Some(role), Absent)) :
            role \in DOMAIN ROLES_TO_SCOPES \cup {"toString"}}
    \cup {Some([id |-> "user-001", role |-> "patient", scopes |-> <<>>])}

\* One call of the middleware requireScope(requiredScopes) on a request.
CallRequireScope ==
  /\ \E requiredScopes \in RequiredInputs, user \in UserInputs :
       call' = [fn |-> "requireScope", requiredScopes |-> requiredScopes,
                user |-> user, outcome |-> requireScope(requiredScopes, user)]
  /\ UNCHANGED <<tenants, claims, activities, audit, reqs, resp, now>>

SpecAuth == Init /\ [][CallRequireScope]_vars

\* -------------------------------------- mockUserMiddleware on its own
\* The x-mock-role header and the mock_role cookie of a request: not sent,
\* empty, a role of the table, a name that is no role, a name of a
\* property every object inherits.
HintInputs ==
  {Absent, Some("")}
    \cup {Some(role) : role \in DOMAIN ROLES_TO_SCOPES}
    \cup {Some("intern")}
    \cup {Some(key) : key \in ObjectPrototypeKeys}

\* One request through mockUserMiddleware and then through the gate of a
\* route, requireScope([scope]), for the scopes the tenants and claims
\* routes require.
CallMockUserMiddleware ==
  /\ \E headerRole \in HintInputs, cookieRole \in HintInputs :
       LET user == mockUserMiddleware(headerRole, cookieRole)
       IN  call' = [ fn |-> "mockUserMiddleware", headerRole |-> headerRole,
                     cookieRole |-> cookieRole, user |-> user,
                     gate |-> [scope \in {"claims.read", "claims.write"} |->
                                 requireScope(<<scope>>, Some(user))] ]
  /\ UNCHANGED <<tenants, claims, activities, audit, reqs, resp, now>>

SpecResolver == Init /\ [][CallMockUserMiddleware]_vars

\* ------------------------------------- the timeline of a seeded store
\* Most tenants, claims and activities the seed writes before and between
\* the timeline reads.
MaxSeedClaims == 1
MaxSeedActivities == 2

SeedTimelineTenant ==
  /\ tenants = <<>>
  /\ SeedTenantRow("professional")
  /\ UNCHANGED <<claims, activities, audit, reqs, resp, now, call>>

SeedTimelineClaim ==
  /\ Cardinality(DOMAIN claims) < MaxSeedClaims
  /\ \E tid \in DOMAIN tenants : SeedClaimRow(tid, "pending", now)
  /\ UNCHANGED <<tenants, activities, audit, reqs, resp, now, call>>

SeedTimelineActivity ==
  /\ Len(activities) < MaxSeedActivities
  /\ \E cid \in DOMAIN claims, type \in {"status", "note"} :
       SeedActivityRow(cid, type)
  /\ UNCHANGED <<tenants, claims, audit, reqs, resp, now, call>>

NextTimeline ==
  \/ Tick
  \/ Deliver
  \/ SeedTimelineTenant
  \/ SeedTimelineClaim
  \/ SeedTimelineActivity
  \/ BeginGetTimeline
  \/ \E r \in BagToSet(reqs) : GetTimelineFindUnique(r)
  \/ \E r \in BagToSet(reqs) : GetTimelineFindMany(r)

SpecTimeline == Init /\ [][NextTimeline]_vars

\* ------------------------------- status updates of a seeded claim
\* PATCH /claims/:id/status on a store that holds a seeded claim: up to
\* MaxRequests requests, in flight one after another or together.
NextRace ==
  \/ Tick
  \/ Deliver
  \/ SeedTimelineTenant
  \/ SeedTimelineClaim
  \/ BeginUpdateStatus
  \/ \E r \in BagToSet(reqs) : UpdateStatusFindUnique(r)
  \/ \E r \in BagToSet(reqs) : UpdateStatusUpdate(r)
  \/ \E r \in BagToSet(reqs) : UpdateStatusActivity(r)

SpecRace == Init /\ [][NextRace]_vars

\* ------------------ the dashboard beside the writers of a seeded store
\* GET /analytics/dashboard, POST /claims and PATCH /claims/:id/status on
\* a store that holds a seeded claim: up to MaxRequests requests, in
\* flight one after another or together.
NextBeside ==
  \/ Tick
  \/ Deliver
  \/ SeedTimelineTenant
  \/ SeedTimelineClaim
  \/ BeginCreateClaim
  \/ \E r \in BagToSet(reqs) : CreateClaimCreate(r)
  \/ \E r \in BagToSet(reqs) : CreateClaimActivity(r)
  \/ BeginUpdateStatus
  \/ \E r \in BagToSet(reqs) : UpdateStatusFindUnique(r)
  \/ \E r \in BagToSet(reqs) : UpdateStatusUpdate(r)
  \/ \E r \in BagToSet(reqs) : UpdateStatusActivity(r)
  \/ BeginDashboard
  \/ \E r \in BagToSet(reqs) : DashboardFindMany(r)

SpecBeside == Init /\ [][NextBeside]_vars

\* ------------------------------- a store that fails an activity write
\* prisma.claimActivity.create rejects (the store is unreachable, the
\* write times out): the awaited call throws in the handler, which has no
\* try/catch, and the request gets no success response.  Nothing undoes
\* what the handler wrote before.
CreateClaimActivityFails(r) ==
  /\ r.op = "CreateClaim" /\ r.pc = "claimActivity.create" /\ resp = NoResp
  /\ Throw(r, {})
  /\ UNCHANGED <<tenants, claims, activities, audit, now, call>>

UpdateStatusActivityFails(r) ==
  /\ r.op = "UpdateStatus" /\ r.pc = "claimActivity.create" /\ resp = NoResp
  /\ Throw(r, {})
  /\ UNCHANGED <<tenants, claims, activities, audit, now, call>>

NextFault ==
  \/ Deliver
  \/ SeedTimelineTenant
  \/ SeedTimelineClaim
  \/ BeginCreateClaim
  \/ \E r \in BagToSet(reqs) : CreateClaimCreate(r)
  \/ \E r \in BagToSet(reqs) : CreateClaimActivity(r)
  \/ \E r \in BagToSet(reqs) : CreateClaimActivityFails(r)
  \/ BeginUpdateStatus
  \/ \E r \in BagToSet(reqs) : UpdateStatusFindUnique(r)
  \/ \E r \in BagToSet(reqs) : UpdateStatusUpdate(r)
  \/ \E r \in BagToSet(reqs) : UpdateStatusActivity(r)
  \/ \E r \in BagToSet(reqs) : UpdateStatusActivityFails(r)

SpecFault == Init /\ [][NextFault]_vars

\* ------------------------------------ the dashboard of a seeded store
\* The aggregation of the dashboard applied to the claims of the store
\* under one of `queries`: lines 67-186 of the handler, without the gate
\* and the audit record.
CallDashboard(queries) ==
  /\ call = NoCall /\ resp = NoResp
  /\ \E query \in queries :
       \E found \in OrderByAsc({WithTenant(c) : c \in Range(claims)}, "submittedAt") :
         call' = [ fn |-> "dashboard", query |-> query, found |-> found,
                   data |-> DashboardData(DashboardFilter(found, query)) ]
  /\ UNCHANGED <<tenants, claims, activities, audit, reqs, resp, now>>

\* The latest submittedAt of the store; the seed submits each claim after
\* the ones it wrote before.
LastSubmitted ==
  IF claims = <<>> THEN -1
  ELSE CHOOSE t \in {c.submittedAt : c \in Range(claims)} :
         \A c \in Range(claims) : c.submittedAt <= t

\* Months of claims: one tenant, up to MaxTrendClaims claims, each one or
\* two ticks after the one before.
MaxTrendClaims == 7

SeedTrendTenant ==
  /\ tenants = <<>>
  /\ SeedTenantRow("starter")
  /\ UNCHANGED <<claims, activities, audit, reqs, resp, now, call>>

SeedTrendClaim ==
  /\ Cardinality(DOMAIN claims) < MaxTrendClaims
  /\ \E tid \in DOMAIN tenants, status \in {"approved", "pending"}, step \in {1, 2} :
       SeedClaimRow(tid, status, LastSubmitted + step)
  /\ UNCHANGED <<tenants, activities, audit, reqs, resp, now, call>>

TrendQueries ==
  { [from |-> f, to |-> t, plan |-> Absent] :
      f \in {Absent, Some(3)}, t \in {Absent, Some(2 * MaxTrendClaims - 4)} }
    \cup {[from |-> Absent, to |-> Absent, plan |-> Some("enterprise")]}

CallTrendDashboard == CallDashboard(TrendQueries)

NextTrends == SeedTrendTenant \/ SeedTrendClaim \/ CallTrendDashboard

SpecTrends == Init /\ [][NextTrends]_vars

\* Tenants of claims: up to MaxBoardTenants tenants, each created once the
\* ones before it have claims, and up to MaxBoardClaims claims, one tick
\* apart.
MaxBoardTenants == 6
MaxBoardClaims == 7

SeedBoardTenant ==
  /\ Cardinality(DOMAIN tenants) < MaxBoardTenants
  /\ \A tid \in DOMAIN tenants : \E c \in Range(claims) : c.tenantId = tid
  /\ SeedTenantRow(IF Cardinality(DOMAIN tenants) % 2 = 0 THEN "starter"
                   ELSE "enterprise")
  /\ UNCHANGED <<claims, activities, audit, reqs, resp, now, call>>

SeedBoardClaim ==
  /\ Cardinality(DOMAIN claims) < MaxBoardClaims
  /\ \E tid \in DOMAIN tenants :
       SeedClaimRow(tid, "approved", LastSubmitted + 1)
  /\ UNCHANGED <<tenants, activities, audit, reqs, resp, now, call>>

BoardQueries ==
  { [from |-> Absent, to |-> Absent, plan |-> Absent],
    [from |-> Some(2), to |-> Absent, plan |-> Absent],
    [from |-> Absent, to |-> Some(MaxBoardClaims - 3), plan |-> Some("all")],
    [from |-> Absent, to |-> Absent, plan |-> Some("starter")] }

CallBoardDashboard == CallDashboard(BoardQueries)

NextBoard == SeedBoardTenant \/ SeedBoardClaim \/ CallBoardDashboard

SpecBoard == Init /\ [][NextBoard]_vars

\* Rates and counts: a tenant per plan of DashPlans and up to MaxDashClaims
\* claims of any tenant and status, each one or two ticks after the one
\* before.
MaxDashClaims == 3
DashPlans == <<"starter", "enterprise">>
DashStatuses == {"approved", "pending", "rejected"}

SeedDashTenant ==
  /\ Cardinality(DOMAIN tenants) < Len(DashPlans)
  /\ claims = <<>>
  /\ SeedTenantRow(DashPlans[Cardinality(DOMAIN tenants) + 1])
  /\ UNCHANGED <<claims, activities, audit, reqs, resp, now, call>>

SeedDashClaim ==
  /\ Cardinality(DOMAIN claims) < MaxDashClaims
  /\ \E tid \in DOMAIN tenants, status \in DashStatuses, step \in {1, 2} :
       SeedClaimRow(tid, status, LastSubmitted + step)
  /\ UNCHANGED <<tenants, activities, audit, reqs, resp, now, call>>

DashQueries ==
  { [from |-> f, to |-> t, plan |-> p] :
      f \in {Absent, Some(1)}, t \in {Absent, Some(2)},
      p \in {Absent, Some("starter"), Some("all")} }

CallDashDashboard == CallDashboard(DashQueries)

\* The metrics of the tenant detail applied to the claims of a tenant of
\* the store: lines 49-79 and 101-108 of the handler, without the gate,
\* the activities and the audit record.
CallTenantMetrics ==
  /\ call = NoCall /\ resp = NoResp
  /\ \E id \in DOMAIN tenants :
       \E tclaims \in OrderByDesc({c \in Range(claims) : c.tenantId = id},
                                  "submittedAt") :
         call' = [ fn |-> "tenantMetrics", id |-> id,
                   metrics |-> TenantMetrics(tclaims) ]
  /\ UNCHANGED <<tenants, claims, activities, audit, reqs, resp, now>>

NextDash ==
  SeedDashTenant \/ SeedDashClaim \/ CallDashDashboard \/ CallTenantMetrics

SpecDash == Init /\ [][NextDash]_vars

\* ------------------------------------------ the insights of a dashboard
\* The insights of lines 162-186 applied to a leaderboard of up to
\* MaxInsightEntries tenants and a trend series of up to MaxInsightBuckets
\* months. The entries are what tenantLeaderboard builds from a tenant's
\* claims: counts per status, their total and the unrounded rate, sorted by
\* total; the counts are chosen around the thresholds of the heuristics.
MaxInsightEntries == 2
MaxInsightBuckets == 3

InsightNames == <<"Saudi German Hospital", "Acme Clinic", "Riyadh Care", "Jeddah Med">>

InsightEntry(k, approved, pending, rejected) ==
  [ id |-> <<"t", k>>, name |-> InsightNames[k], plan |-> "starter",
    total |-> approved + pending + rejected, approved |-> approved,
    rejected |-> rejected, pending |-> pending,
    approvalRate |-> Frac(approved * 100, approved + pending + rejected) ]

InsightLeaderboards ==
  UNION { { lb \in [1..n -> [approved : {0, 6, 7}, pending : {0, 1, 3}, rejected : {0, 3}]] :
              /\ \A k \in 1..n : lb[k].approved + lb[k].pending + lb[k].rejected > 0
              /\ \A k \in 1..(n - 1) :
                   lb[k].approved + lb[k].pending + lb[k].rejected
                     >= lb[k + 1].approved + lb[k + 1].pending + lb[k + 1].rejected }
          : n \in 0..MaxInsightEntries }

InsightTrends ==
  UNION { [1..n -> {0, 5, 6}] : n \in 0..MaxInsightBuckets }

CallInsights ==
  /\ call = NoCall
  /\ \E lb \in InsightLeaderboards, rejected \in InsightTrends :
       LET tenantLeaderboard ==
             [k \in 1..Len(lb) |->
                InsightEntry(k, lb[k].approved, lb[k].pending, lb[k].rejected)]
           statusTrends ==
             [k \in 1..Len(rejected) |->
                [ name |-> ToLocaleMonthYear((k - 1) * TicksPerMonth),
                  approved |-> 0, pending |-> 0, rejected |-> rejected[k] ]]
       IN  call' = [ fn |-> "insights", tenantLeaderboard |-> tenantLeaderboard,
                     statusTrends |-> statusTrends,
                     insights |-> Insights(tenantLeaderboard, statusTrends) ]
  /\ UNCHANGED <<tenants, claims, activities, audit, reqs, resp, now>>

SpecInsights == Init /\ [][CallInsights]_vars

\* ------------------------------------ the detail of a seeded tenant
\* GET /tenants/:id on a store seeded before the service takes requests:
\* two tenants, then up to MaxDetailRows claims, each followed by its
\* `created` activity.  Most rows are of the first tenant, so that it gets
\* more than RecentLimit of them; the statuses rotate; now and then two
\* rows in a row carry the same timestamp.
MaxDetailRows == 24

DetailTenantOf(k) == TenantKey(IF k % 8 = 3 THEN 2 ELSE 1)
DetailStatusOf(k) == KnownStatuses[(k % 3) + 1]

SeedDetailTenant ==
  /\ Cardinality(DOMAIN tenants) < Len(DashPlans)
  /\ reqs = EmptyBag
  /\ SeedTenantRow(DashPlans[Cardinality(DOMAIN tenants) + 1])
  /\ UNCHANGED <<claims, activities, audit, reqs, resp, now, call>>

SeedDetailClaim ==
  LET k == Cardinality(DOMAIN claims) + 1
  IN  /\ k <= MaxDetailRows
      /\ Len(activities) = k - 1
      /\ reqs = EmptyBag
      /\ SeedClaimRow(DetailTenantOf(k), DetailStatusOf(k),
                      LastSubmitted + (IF k % 10 = 2 THEN 0 ELSE 1))
      /\ UNCHANGED <<tenants, activities, audit, reqs, resp, now, call>>

SeedDetailActivity ==
  LET k == Len(activities) + 1
  IN  /\ Cardinality(DOMAIN claims) = k
      /\ reqs = EmptyBag
      /\ SeedActivityRow(ClaimKey(k), "created")
      /\ now' = now + (IF k % 10 = 1 THEN 0 ELSE 1)
      /\ UNCHANGED <<tenants, claims, audit, reqs, resp, call>>

\* The client receives the response; it keeps the last tenant detail it
\* was given.  The store is seeded before the first detail is received.
DeliverDetail ==
  /\ resp # NoResp
  /\ resp' = NoResp
  /\ call' = IF resp.op = "GetTenantDetail" /\ resp.code = 200
             THEN [fn |-> "client", last |-> resp]
             ELSE call
  /\ UNCHANGED <<tenants, claims, activities, audit, reqs, now>>

NextDetail ==
  \/ SeedDetailTenant
  \/ SeedDetailClaim
  \/ SeedDetailActivity
  \/ DeliverDetail
  \/ BeginGetTenantDetail
  \/ \E r \in BagToSet(reqs) : GetTenantDetailFindUnique(r)
  \/ \E r \in BagToSet(reqs) : GetTenantDetailFindActivities(r)

SpecDetail == Init /\ [][NextDetail]_vars

\* ------------------------------------------- auditLog on a failing sink
\* Ids of the resources named in the records handed to auditLog.
MaxSinkIds == 3

\* What console.log does with the line: it writes it, it throws, or the
\* stream fails and console swallows the error.
SinkOutcomes == {"written", "throws", "swallowed"}

\* The records the routes hand to auditLog.
SinkRecords ==
  LET user == mockUserMiddleware(Absent, Absent)
      ids == 1..MaxSinkIds
  IN  {ListTenantsAudit(user), ListClaimsAudit(user), DashboardAudit(user)}
        \cup {CreateTenantAudit(user, [id |-> TenantKey(n)]) : n \in ids}
        \cup {GetTenantDetailAudit(user, [id |-> TenantKey(n)]) : n \in ids}
        \cup {GetClaimAudit(user, [id |-> ClaimKey(n)]) : n \in ids}
        \cup {CreateClaimAudit(user, [id |-> ClaimKey(n)]) : n \in ids}
        \cup {UpdateStatusAudit(user, ClaimKey(n), status) :
                n \in ids, status \in Range(KnownStatuses)}
        \cup {AppendNoteAudit(user, [id |-> ClaimKey(n)], <<"s", "e", "e">>) :
                n \in ids}

\* One `void auditLog(record)` of a handler. auditLog is async and has no
\* try/catch: a throw inside it rejects the promise the caller discards,
\* and the runtime then either warns about the unhandled rejection or ends
\* the process. Nothing in auditLog or its callers writes an error line.
CallAuditLog ==
  /\ call = NoCall
  /\ \E record \in SinkRecords, sink \in SinkOutcomes,
        runtime \in {"warns", "terminates"} :
       /\ audit' = IF sink = "written" THEN auditLog(record) ELSE audit
       /\ call' = [ fn |-> "auditLog", record |-> record, sink |-> sink,
                    promise |-> IF sink = "throws" THEN "rejected" ELSE "resolved",
                    caller |-> IF sink = "throws" /\ runtime = "terminates"
                               THEN "terminated" ELSE "continues",
                    errorLines |-> <<>> ]
  /\ UNCHANGED <<tenants, claims, activities, reqs, resp, now>>

SpecSink == Init /\ [][CallAuditLog]_vars

\* ================================================================ claims
\* What the formulas below read off a response.
Sent(op) == resp.op = op /\ resp.in # NoInput
ActivityEffects == {e \in resp.effects : e[1] = "activity"}
AuditEffects == {e \in resp.effects : e[1] = "audit"}
ActivityById(id) == activities[CHOOSE i \in 1..Len(activities) : activities[i].id = id]
StoreAndAudit == <<tenants, claims, activities, audit>>
TerminalStatuses == {"approved", "rejected"}

ScopeSet(user) == IF user.scopes = NotAnArray THEN {} ELSE Range(user.scopes)
RequiredScope(op) ==
  IF op \in {"CreateTenant", "CreateClaim", "UpdateStatus", "AppendNote"}
  THEN "claims.write"
  ELSE IF op = "Dashboard" THEN "analytics.read" ELSE "claims.read"

\* C2: a request whose access context holds no scope the endpoint requires
\* is answered with the authorization error (403) and has written nothing,
\* and no such request is ever in flight in a handler.
C2_UnauthorizedGets403 ==
  /\ resp.op # "none" /\ RequiredScope(resp.op) \notin ScopeSet(resp.user)
       => resp.code = 403 /\ resp.effects = {}
  /\ \A r \in BagToSet(reqs) : RequiredScope(r.op) \in ScopeSet(r.user)

\* C3: requireScope lets the request through if and only if at least one of
\* the required scopes is among the scopes of the request's user; a user
\* that is missing or holds no scope never gets through.
C3_AuthorizeIffIntersect ==
  call.fn = "requireScope" =>
    LET held == IF call.user = Absent THEN {} ELSE ScopeSet(Val(call.user))
    IN  (call.outcome = "next") <=> (Range(call.requiredScopes) \cap held # {})

\* C3 witness: two scopes are required, the user holds the second and not
\* the first, and the request gets through.
C3_Witness ==
  /\ call.fn = "requireScope" /\ call.outcome = "next"
  /\ Len(call.requiredScopes) = 2
  /\ call.requiredScopes[1] \notin ScopeSet(Val(call.user))
  /\ call.requiredScopes[2] \in ScopeSet(Val(call.user))

\* C4: when CreateClaim has answered 200, the claim it created is pending
\* with processedAt null (in the response, and in the store as long as no
\* status update of that claim was written), and the timeline of the claim
\* holds exactly one activity of type created, with the claim's id and
\* tenant id.
C4_CreatedPendingWithOneActivity ==
  Sent("CreateClaim") /\ resp.code = 200 =>
    LET claim == resp.body
        created == {i \in 1..Len(activities) :
                      /\ activities[i].claimId = claim.id
                      /\ activities[i].type = "created"}
        updates == {i \in 1..Len(audit) :
                      /\ audit[i].action = "claims:update-status"
                      /\ audit[i].resourceId = claim.id}
    IN  /\ claim.status = "pending" /\ claim.processedAt = NULL
        /\ claim.id \in DOMAIN claims
        /\ claims[claim.id].tenantId = claim.tenantId
        /\ updates = {} => /\ claims[claim.id].status = "pending"
                           /\ claims[claim.id].processedAt = NULL
        /\ Cardinality(created) = 1
        /\ \A i \in created : activities[i].tenantId = claim.tenantId
        /\ \A e \in ActivityEffects : ActivityById(e[2]).type = "created"

\* C4 witness: a CreateClaim has answered 200.
C4_Witness == Sent("CreateClaim") /\ resp.code = 200

\* C5: an UpdateStatus that has answered 200 has appended exactly one
\* activity, of type status, to the timeline of that claim, with a message
\* that names the new status, and has written exactly one audit record, for
\* that claim, with phiInvolved true.
C5_StatusActivityAndAudit ==
  Sent("UpdateStatus") /\ resp.code = 200 =>
    /\ Cardinality(ActivityEffects) = 1
    /\ \A e \in ActivityEffects :
         LET a == ActivityById(e[2])
         IN  /\ a.claimId = resp.in.id
             /\ a.type = "status"
             /\ Includes(a.message, Val(resp.in.status))
    /\ Cardinality(AuditEffects) = 1
    /\ \A e \in AuditEffects :
         /\ audit[e[2]].action = "claims:update-status"
         /\ audit[e[2]].resourceType = "claim"
         /\ audit[e[2]].resourceId = resp.in.id
         /\ audit[e[2]].phiInvolved = TRUE

\* C5 witness: an UpdateStatus has answered 200.
C5_Witness == Sent("UpdateStatus") /\ resp.code = 200

\* The text of a message between its first and its last character that
\* is not a blank; empty for a missing message.
Unpadded(message) ==
  LET body == IF message = Absent THEN <<>> ELSE Val(message)
      inner == {i \in 1..Len(body) : body[i] # " "}
      first == CHOOSE i \in inner : \A j \in inner : i <= j
      last == CHOOSE i \in inner : \A j \in inner : j <= i
  IN  IF inner = {} THEN <<>>
      ELSE [i \in 1..(last - first + 1) |-> body[first + i - 1]]

\* C6: an AppendNote whose message is missing or has fewer than 3
\* characters once leading and trailing blanks are removed is answered 400
\* and has created no activity and no audit record, whether the claim exists
\* or not; an AppendNote with a longer message on a claim of the store is
\* answered 201 and has created exactly one activity, of type note, that
\* holds the message without its leading and trailing blanks.
C6_NoteValidation ==
  Sent("AppendNote") =>
    LET trimmed == Unpadded(resp.in.message)
    IN  IF Len(trimmed) < 3
        THEN resp.code = 400 /\ resp.effects = {}
        ELSE resp.in.id \in DOMAIN claims =>
               /\ resp.code = 201
               /\ Cardinality(ActivityEffects) = 1
               /\ \A e \in ActivityEffects :
                    LET a == ActivityById(e[2])
                    IN  /\ a.type = "note"
                        /\ a.claimId = resp.in.id
                        /\ a.message = trimmed

\* C6 witness: a note with blanks around three characters was stored, and
\* a note of two characters between blanks was refused.
C6_Witness ==
  /\ Sent("AppendNote") /\ resp.code = 201
  /\ resp.in.message = Some(<<" ", "s", "e", "e", " ">>)

C6_WitnessRefused ==
  /\ Sent("AppendNote") /\ resp.code = 400
  /\ resp.in.message = Some(<<" ", "o", "k", " ">>)
  /\ resp.in.id \in DOMAIN claims

\* C7: a CreateClaim whose body lacks a required field or gives a negative
\* amount is answered 400 and stores nothing, and every claim of the store
\* has an amount of at least 0.
C7_AmountAndFieldsValidated ==
  /\ \A id \in DOMAIN claims : claims[id].amount >= 0
  /\ Sent("CreateClaim") =>
       LET body == resp.in
           absent == \E f \in DOMAIN body : body[f] = Absent
           negative == body.amount # Absent /\ Val(body.amount) < 0
       IN  absent \/ negative => resp.code = 400 /\ resp.effects = {}

\* C8: a CreateTenant whose plan is not starter, professional or enterprise
\* is answered 400 and stores nothing, and every tenant of the store has a
\* plan among the three.
C8_PlanValidated ==
  LET plans == {"starter", "professional", "enterprise"}
  IN  /\ \A id \in DOMAIN tenants : tenants[id].plan \in plans
      /\ Sent("CreateTenant") =>
           (resp.in.plan = Absent \/ Val(resp.in.plan) \notin plans
              => resp.code = 400 /\ resp.effects = {})

\* C9: an UpdateStatus whose status is absent or not pending, approved or
\* rejected is answered 400 by a step that leaves every claim, activity and
\* audit record as it was, and the status of every claim of the store is
\* one of the three.
C9_StatusValidated ==
  /\ [](\A id \in DOMAIN claims :
          claims[id].status \in {"pending", "approved", "rejected"})
  /\ [](Sent("UpdateStatus")
          /\ resp.in.status \notin {Some("pending"), Some("approved"),
                                     Some("rejected")}
          => resp.code = 400 /\ resp.effects = {})
  /\ [][resp' # resp /\ resp'.op = "UpdateStatus" /\ resp'.code = 400
          => UNCHANGED StoreAndAudit]_vars

\* C9 witness: the status archived was refused for a claim of the store.
C9_Witness ==
  /\ Sent("UpdateStatus") /\ resp.code = 400
  /\ resp.in.status = Some("archived")
  /\ resp.in.id \in DOMAIN claims

\* The operations that look a row up by the id of the path, and the ids of
\* the store each of them looks into.
ById == {"GetClaim", "UpdateStatus", "AppendNote", "GetTimeline", "GetTenantDetail"}
StoredIds(op) == IF op = "GetTenantDetail" THEN DOMAIN tenants ELSE DOMAIN claims

\* C10: GetClaim, UpdateStatus with a known status, AppendNote with a
\* message of 3 characters or more, the timeline read and GetTenantDetail,
\* given an id that is not in the store, are answered 404 by a step that
\* leaves every tenant, claim, activity and audit record as it was.
C10_NotFoundChangesNothing ==
  /\ [](resp.op \in ById /\ resp.in # NoInput
          /\ (resp.op = "UpdateStatus" =>
                resp.in.status \in {Some("pending"), Some("approved"),
                                    Some("rejected")})
          /\ (resp.op = "AppendNote" => Len(Unpadded(resp.in.message)) >= 3)
          /\ resp.in.id \notin StoredIds(resp.op)
          => resp.code = 404 /\ resp.effects = {})
  /\ [][resp' # resp /\ resp'.op \in ById /\ resp'.code = 404
          => UNCHANGED StoreAndAudit]_vars

\* C10 witnesses: an UpdateStatus to approved was answered 404 while the
\* store held a claim, and a GetTenantDetail was answered 404 while the
\* store held a tenant.
C10_Witness ==
  /\ Sent("UpdateStatus") /\ resp.code = 404
  /\ resp.in.status = Some("approved")
  /\ claims # <<>>

C10_WitnessTenant ==
  /\ Sent("GetTenantDetail") /\ resp.code = 404 /\ tenants # <<>>

\* C11: the scenario's CreateClaim, with the body {tenantId, patientName,
\* amount: 1000, diagnosis} and no patientId or nationalId, for a tenant of
\* plan professional that is in the store, succeeds: it is answered 200
\* with a pending claim, and one created activity of the claim exists.
C11_ScenarioSucceeds ==
  /\ Sent("CreateClaim")
  /\ resp.in.tenantId # Absent
  /\ Val(resp.in.tenantId) \in DOMAIN tenants
  /\ tenants[Val(resp.in.tenantId)].plan = "professional"
  /\ resp.in = [tenantId |-> resp.in.tenantId, patientName |-> Some("Ahmed"),
                patientId |-> Absent, nationalId |-> Absent,
                amount |-> Some(1000), diagnosis |-> Some("Flu")]
  => /\ resp.code = 200
     /\ resp.body.status = "pending"
     /\ Cardinality({i \in 1..Len(activities) :
                       /\ activities[i].claimId = resp.body.id
                       /\ activities[i].type = "created"}) = 1

\* C12: no step of the service changes or removes an activity that has been
\* written: after every step the activities written before it are all still
\* there, in their places, with the same id, claimId, tenantId, type,
\* message and createdAt.
C12_ActivitiesAppendOnly ==
  [][/\ Len(activities') >= Len(activities)
     /\ \A i \in 1..Len(activities) : activities'[i] = activities[i]]_vars

\* C12 witness: a status update has answered 200 after appending its
\* activity behind the created activity of the claim.
C12_Witness ==
  /\ Sent("UpdateStatus") /\ resp.code = 200
  /\ Len(activities) >= 2
  /\ activities[1].type = "created" /\ activities[1].claimId = resp.in.id

\* The place of the activity `a` in the order in which the activities were
\* written.
WrittenAt(a) == CHOOSE i \in 1..Len(activities) : activities[i].id = a.id

\* C13: a timeline read that is answered 200 returns exactly the activities
\* of that claim, each once, with creation times that never increase down
\* the list, and never lists an activity written later after one written
\* earlier.
C13_TimelineNewestFirst ==
  Sent("GetTimeline") /\ resp.code = 200 =>
    LET found == resp.body
    IN  /\ Range(found) = {a \in Range(activities) : a.claimId = resp.in.id}
        /\ Len(found) = Cardinality(Range(found))
        /\ \A i, j \in 1..Len(found) :
             i < j => /\ found[i].createdAt >= found[j].createdAt
                      /\ WrittenAt(found[i]) > WrittenAt(found[j])

\* The operations that write to the store or return patient fields, with
\* the type of the resource each acts on.
Audited ==
  [ CreateTenant |-> "tenant", GetTenantDetail |-> "tenant",
    ListClaims |-> "claim", GetClaim |-> "claim", CreateClaim |-> "claim",
    UpdateStatus |-> "claim", AppendNote |-> "claim", GetTimeline |-> "claim" ]

\* C14: every CreateTenant, CreateClaim, UpdateStatus, AppendNote,
\* ListClaims, GetClaim, GetTenantDetail and timeline read that was answered
\* with success has written an audit record for the acting user, of the
\* resource type of the operation.
C14_SuccessIsAudited ==
  resp.op \in DOMAIN Audited /\ resp.code \in {200, 201} =>
    \E e \in AuditEffects :
      /\ audit[e[2]].userId = resp.user.id
      /\ audit[e[2]].resourceType = Audited[resp.op]

\* The audit actions of the operations whose response holds patient name,
\* patient id or national id.
PhiActions ==
  {"claims:list", "claims:get", "claims:create", "claims:update-status",
   "claims:add-note", "tenants:get-detail"}

\* C15: every audit record has a field phiInvolved that is true or false,
\* and it is true in the records of ListClaims, GetClaim, CreateClaim,
\* UpdateStatus, AppendNote and GetTenantDetail.
C15_PhiFlagged ==
  \A i \in 1..Len(audit) :
    /\ "phiInvolved" \in DOMAIN audit[i]
    /\ audit[i].phiInvolved \in BOOLEAN
    /\ audit[i].action \in PhiActions => audit[i].phiInvolved = TRUE

\* C16: when the sink fails to take the line of an audit record, the
\* handler that called auditLog goes on to its response, and the failure is
\* written to the local log.
C16_SinkFailureLogged ==
  call.fn = "auditLog" /\ call.sink # "written" =>
    /\ call.caller = "continues"
    /\ call.errorLines # <<>>

\* The claims of a dashboard call that pass its query: submitted within
\* [from, to] where given, and of a tenant on the plan where one is given
\* (the plan `all` asks for every plan).
Passes(row, query) ==
  /\ query.from # Absent => Val(query.from) <= row.submittedAt
  /\ query.to # Absent => row.submittedAt <= Val(query.to)
  /\ query.plan \notin {Absent, Some(""), Some("all")} =>
       tenants[row.tenantId].plan = Val(query.plan)
Filtered == {i \in 1..Len(call.found) : Passes(call.found[i], call.query)}
\* The calendar month a tick falls in, counted from the month of tick 0,
\* and the months of the filtered claims.
MonthNo(date) == date \div TicksPerMonth
FilteredMonths == {MonthNo(call.found[i].submittedAt) : i \in Filtered}

\* C17: the statusTrends of a dashboard call has at most 6 entries; it has
\* one entry for each of the last 6 calendar months in which a filtered
\* claim was submitted (for every such month when there are 6 or fewer),
\* and the entries are in ascending order of their months.
C17_TrendsLastSixAscending ==
  call.fn = "dashboard" =>
    LET trends == call.data.statusTrends
        recent == {m \in FilteredMonths :
                     Cardinality({o \in FilteredMonths : o > m}) < 6}
    IN  /\ Len(trends) <= 6
        /\ Len(trends) = Cardinality(recent)
        /\ \A m \in recent :
             trends[Cardinality({o \in recent : o < m}) + 1].name
               = ToLocaleMonthYear(m * TicksPerMonth)

\* C17 witness: claims of seven months pass the query, the months run over
\* the end of a year, and six entries are returned.
C17_Witness ==
  /\ call.fn = "dashboard"
  /\ Cardinality(FilteredMonths) = 7
  /\ Len(call.data.statusTrends) = 6
  /\ call.data.statusTrends[1].name[3] # call.data.statusTrends[6].name[3]

\* The number of filtered claims of a tenant in a dashboard call, and the
\* tenants that have any.
FilteredOf(tid) == Cardinality({i \in Filtered : call.found[i].tenantId = tid})
FilteredTenants == {tid \in DOMAIN tenants : FilteredOf(tid) > 0}

\* C18: the tenantLeaderboard of a dashboard call has at most 5 entries, no
\* two of them of the same tenant; each entry's total is the number of
\* filtered claims of its tenant, the totals do not increase along the
\* list, and no tenant left out of the list has more filtered claims than
\* a tenant in it.
C18_LeaderboardTopFive ==
  call.fn = "dashboard" =>
    LET board == call.data.tenantLeaderboard
        listed == {board[i].id : i \in 1..Len(board)}
    IN  /\ Len(board) <= 5
        /\ \A i, j \in 1..Len(board) :
             i < j => board[i].id # board[j].id /\ board[i].total >= board[j].total
        /\ \A i \in 1..Len(board) :
             board[i].id \in FilteredTenants /\ board[i].total = FilteredOf(board[i].id)
        /\ \A out \in FilteredTenants \ listed :
             \A kept \in listed : FilteredOf(out) <= FilteredOf(kept)

\* C18 witness: six tenants have filtered claims, five are listed, and the
\* tenant with the most claims is not the one whose claim came first.
C18_Witness ==
  /\ call.fn = "dashboard"
  /\ Cardinality(FilteredTenants) = 6
  /\ Len(call.data.tenantLeaderboard) = 5
  /\ call.data.tenantLeaderboard[1].total > call.data.tenantLeaderboard[5].total
  /\ call.data.tenantLeaderboard[1].id # call.found[1].tenantId

\* `rate` is approved/total*100 rounded to one decimal place: a whole
\* number of tenths, at most half a tenth away from the quotient; and 0
\* when there are no claims.
RoundedRate(rate, approved, total) ==
  IF total = 0 THEN rate = Frac(0, 1)
  ELSE /\ (10 * rate.n) % rate.d = 0
       /\ 20 * Abs(rate.n * total - 100 * approved * rate.d) <= rate.d * total

\* C19: every approvalRate reported is 0 for no claims and otherwise
\* approved/total*100 rounded to one decimal place: the dashboard's own
\* rate, the rate of each leaderboard entry, and the rate in the metrics
\* of the tenant detail.
C19_ApprovalRateRounded ==
  /\ call.fn = "dashboard" =>
       /\ RoundedRate(call.data.approvalRate, call.data.autoApproved,
                      call.data.totalClaims)
       /\ \A i \in 1..Len(call.data.tenantLeaderboard) :
            LET entry == call.data.tenantLeaderboard[i]
            IN  RoundedRate(entry.approvalRate, entry.approved, entry.total)
  /\ call.fn = "tenantMetrics" =>
       RoundedRate(call.metrics.approvalRate, call.metrics.approvedClaims,
                   call.metrics.totalClaims)

\* The filtered claims of a dashboard call submitted in month `m` with
\* status `status`.
FilteredIn(m, status) ==
  Cardinality({i \in Filtered : /\ MonthNo(call.found[i].submittedAt) = m
                                /\ call.found[i].status = status})

\* C20: each statusTrends bucket of a dashboard call counts, per status,
\* the filtered claims submitted in its month, where the filtered claims
\* are those within [from, to] and of the plan asked for; two filtered
\* claims of different months, the first approved and the second rejected,
\* give the buckets (1,0,0) and (0,0,1) in month order.
C20_BucketCounts ==
  call.fn = "dashboard" =>
    LET trends == call.data.statusTrends
        recent == {m \in FilteredMonths :
                     Cardinality({o \in FilteredMonths : o > m}) < 6}
        Counts(b) == <<b.approved, b.pending, b.rejected>>
    IN  /\ \A m \in recent :
             LET bucket == trends[Cardinality({o \in recent : o < m}) + 1]
             IN  /\ bucket.name = ToLocaleMonthYear(m * TicksPerMonth)
                 /\ Counts(bucket) = <<FilteredIn(m, "approved"),
                                       FilteredIn(m, "pending"),
                                       FilteredIn(m, "rejected")>>
        /\ \A i, j \in Filtered :
             ( /\ Filtered = {i, j}
               /\ MonthNo(call.found[i].submittedAt) < MonthNo(call.found[j].submittedAt)
               /\ call.found[i].status = "approved"
               /\ call.found[j].status = "rejected" )
             => /\ Len(trends) = 2
                /\ Counts(trends[1]) = <<1, 0, 0>>
                /\ Counts(trends[2]) = <<0, 0, 1>>

\* C20 witness: a from date and a plan leave out a claim each, and an
\* approved and a rejected claim of different months remain.
C20_Witness ==
  /\ call.fn = "dashboard"
  /\ call.query.from # Absent /\ call.query.plan = Some("starter")
  /\ Len(call.found) = 3 /\ Cardinality(Filtered) = 1
  /\ \E i \in 1..Len(call.found) :
       /\ tenants[call.found[i].tenantId].plan # "starter"
       /\ call.found[i].submittedAt >= Val(call.query.from)
  /\ Len(call.data.statusTrends) = 1

\* C20 witness of the scenario: exactly an approved claim and a rejected
\* claim of a later month pass the query.
C20_ScenarioWitness ==
  /\ call.fn = "dashboard"
  /\ \E i, j \in Filtered :
       /\ Filtered = {i, j}
       /\ MonthNo(call.found[i].submittedAt) < MonthNo(call.found[j].submittedAt)
       /\ call.found[i].status = "approved"
       /\ call.found[j].status = "rejected"

\* The conditions of the three insights of an insights call, stated on its
\* leaderboard and trend series.
Busy == {i \in 1..Len(call.tenantLeaderboard) : call.tenantLeaderboard[i].total >= 10}
Below(a, b) == a.n * b.d < b.n * a.d
LowCondition ==
  \E i \in Busy : Below(call.tenantLeaderboard[i].approvalRate, [n |-> 70, d |-> 1])
PendingCondition ==
  \E i \in 1..Len(call.tenantLeaderboard) : call.tenantLeaderboard[i].pending > 0
RejectionCondition ==
  /\ Len(call.statusTrends) >= 2
  /\ call.statusTrends[Len(call.statusTrends)].rejected
       > call.statusTrends[Len(call.statusTrends) - 1].rejected + 5
\* What each warning says.
IsLowWarning(m) ==
  /\ Len(m) = 5 /\ m[3] = " has a low approval rate ("
  /\ \E i \in Busy :
       /\ m[2] = call.tenantLeaderboard[i].name
       /\ \A j \in Busy : ~Below(call.tenantLeaderboard[j].approvalRate,
                                 call.tenantLeaderboard[i].approvalRate)
IsPendingWarning(m) ==
  /\ Len(m) = 5 /\ m[3] = " has "
  /\ \E i \in 1..Len(call.tenantLeaderboard) :
       /\ call.tenantLeaderboard[i].pending > 0
       /\ m[2] = call.tenantLeaderboard[i].name
       /\ m[4] = call.tenantLeaderboard[i].pending
       /\ \A j \in 1..Len(call.tenantLeaderboard) :
            call.tenantLeaderboard[j].pending <= call.tenantLeaderboard[i].pending
IsRejectionWarning(m) == Len(m) = 1

\* C21: the insights are the low-approval warning, the pending warning and
\* the rejection-increase warning, in this order, each present exactly when
\* its condition holds: a leaderboard entry with total >= 10 and the lowest
\* rate among those has a rate below 70 (the warning names it); an entry
\* has pending claims (the warning names the one with the most); the last
\* of at least two trend buckets has over 5 more rejected claims than the
\* one before it.
C21_InsightsMatchConditions ==
  call.fn = "insights" =>
    LET n1 == IF LowCondition THEN 1 ELSE 0
        n2 == IF PendingCondition THEN 1 ELSE 0
        n3 == IF RejectionCondition THEN 1 ELSE 0
    IN  /\ Len(call.insights) = n1 + n2 + n3
        /\ LowCondition => IsLowWarning(call.insights[1])
        /\ PendingCondition => IsPendingWarning(call.insights[n1 + 1])
        /\ RejectionCondition => IsRejectionWarning(call.insights[n1 + n2 + 1])

\* C21 witness: all three warnings; the low-approval warning names the
\* second of two entries of 10 claims, and the pending warning the first.
C21_Witness ==
  /\ call.fn = "insights"
  /\ Len(call.insights) = 3
  /\ Cardinality(Busy) = 2
  /\ call.insights[1][2] = call.tenantLeaderboard[2].name
  /\ call.insights[2][2] = call.tenantLeaderboard[1].name

\* C21 witness of the empty list: a leaderboard and two buckets whose
\* rejected counts differ by exactly 5, and no warning.
C21_WitnessNone ==
  /\ call.fn = "insights"
  /\ call.insights = <<>>
  /\ Len(call.tenantLeaderboard) > 0
  /\ Len(call.statusTrends) >= 2
  /\ call.statusTrends[Len(call.statusTrends)].rejected = 5
  /\ call.statusTrends[Len(call.statusTrends) - 1].rejected = 0

\* A tenant detail that was answered with success, the claims of its
\* tenant in the store and the number of them in a status.
DetailSent == resp.op = "GetTenantDetail" /\ resp.code = 200
ClaimsOfTenant(id) == {c \in Range(claims) : c.tenantId = id}
InStatus(id, status) == Cardinality({c \in ClaimsOfTenant(id) : c.status = status})

\* C22: the metrics of a tenant detail count the claims of that tenant and
\* no others: totalClaims is their number, approvedClaims, rejectedClaims
\* and pendingClaims are their numbers per status and add up to
\* totalClaims; recentClaims are at most 20 claims of the tenant and
\* recentActivities at most 20 activities of the tenant, both latest
\* first.
C22_DetailOfOneTenant ==
  DetailSent =>
    LET id == resp.in.id
        metrics == resp.body.metrics
        recentClaims == resp.body.recentClaims
        recentActivities == resp.body.recentActivities
    IN  /\ metrics.totalClaims = Cardinality(ClaimsOfTenant(id))
        /\ metrics.approvedClaims = InStatus(id, "approved")
        /\ metrics.rejectedClaims = InStatus(id, "rejected")
        /\ metrics.pendingClaims = InStatus(id, "pending")
        /\ metrics.approvedClaims + metrics.rejectedClaims + metrics.pendingClaims
             = metrics.totalClaims
        /\ Len(recentClaims) <= 20
        /\ \A i \in 1..Len(recentClaims) : recentClaims[i] \in ClaimsOfTenant(id)
        /\ \A i, j \in 1..Len(recentClaims) :
             i < j => /\ recentClaims[i].id # recentClaims[j].id
                      /\ recentClaims[i].submittedAt >= recentClaims[j].submittedAt
        /\ Len(recentActivities) <= 20
        /\ \A i \in 1..Len(recentActivities) :
             \E a \in Range(activities) :
               /\ a.id = recentActivities[i].id /\ a.tenantId = id
               /\ a.createdAt = recentActivities[i].createdAt
        /\ \A i, j \in 1..Len(recentActivities) :
             i < j => /\ recentActivities[i].id # recentActivities[j].id
                      /\ recentActivities[i].createdAt >= recentActivities[j].createdAt

\* C22 witness: the tenant has 21 claims and 21 activities, 20 of each are
\* listed, and the other tenant has claims of its own.
C22_Witness ==
  /\ DetailSent
  /\ resp.body.metrics.totalClaims = 21
  /\ Len(resp.body.recentClaims) = 20
  /\ Len(resp.body.recentActivities) = 20
  /\ \E c \in Range(claims) : c.tenantId # resp.in.id

\* C23: a tenant detail answered after the client received one for the
\* same tenant, with no write to the store in between, carries the same
\* metrics; and no step of the route changes a tenant, a claim or an
\* activity.
C23_DetailIdempotent ==
  /\ []( (DetailSent /\ call.fn = "client" /\ call.last.in.id = resp.in.id)
           => resp.body.metrics = call.last.body.metrics )
  /\ [][ (reqs' # reqs \/ resp' # resp)
           => UNCHANGED <<tenants, claims, activities>> ]_vars

\* C23 witness: the second detail of a tenant with claims in every status,
\* two of them submitted at the same time, so that the claims may be read
\* in another order.
C23_Witness ==
  /\ DetailSent /\ call.fn = "client" /\ call.last.in.id = resp.in.id
  /\ resp.body.metrics.approvedClaims > 0
  /\ resp.body.metrics.pendingClaims > 0
  /\ resp.body.metrics.avgProcessingSeconds > 0
  /\ resp.body.recentClaims # call.last.body.recentClaims

\* The role hint of a resolver call: the header when it has one, else the
\* cookie, else none.
Hint ==
  IF call.headerRole \notin {Absent, Some("")} THEN call.headerRole
  ELSE IF call.cookieRole \notin {Absent, Some("")} THEN call.cookieRole
  ELSE Absent

\* C24: the resolver fails no request; for a hint that is a role of the
\* table the user gets that role and the table's scopes for it; for any
\* other hint and for none the user gets provider_biller and its scopes;
\* and a request without a hint passes the gates of the routes that list
\* and create tenants and claims.
C24_ResolverFallsBack ==
  call.fn = "mockUserMiddleware" =>
    /\ \A scope \in DOMAIN call.gate : call.gate[scope] # "throw"
    /\ IF Hint # Absent /\ Val(Hint) \in DOMAIN ROLES_TO_SCOPES
       THEN /\ call.user.role = Val(Hint)
            /\ call.user.scopes = ROLES_TO_SCOPES[Val(Hint)]
       ELSE /\ call.user.role = "provider_biller"
            /\ call.user.scopes = ROLES_TO_SCOPES["provider_biller"]
    /\ Hint = Absent => \A scope \in DOMAIN call.gate : call.gate[scope] = "next"

\* The audit lines of the status updates committed on claim `id`, in the
\* order of their commits (the line is logged as the update returns).
StatusLines(id) ==
  {i \in 1..Len(audit) : /\ audit[i].action = "claims:update-status"
                         /\ audit[i].resourceId = id}
LastStatusLine(id) == CHOOSE i \in StatusLines(id) : \A j \in StatusLines(id) : j <= i

\* C25: an UpdateStatus request with a valid status for a claim of the
\* store is answered with success, whatever other status updates of the
\* claim are in flight; and the claim has the status written by the update
\* that committed last, with the processedAt of that same update: null for
\* pending, a time not after that commit otherwise.
C25_LastWriteWins ==
  /\ ( /\ resp.op = "UpdateStatus" /\ "id" \in DOMAIN resp.in
       /\ resp.in.id \in DOMAIN claims
       /\ resp.in.status \in {Some("pending"), Some("approved"), Some("rejected")} )
       => resp.code = 200
  /\ \A id \in DOMAIN claims :
       StatusLines(id) # {} =>
         LET last == audit[LastStatusLine(id)]
         IN  /\ claims[id].status = last.meta.status
             /\ (claims[id].processedAt = NULL) <=> (last.meta.status = "pending")
             /\ claims[id].processedAt # NULL => Val(claims[id].processedAt) <= last.ts

\* C25 witness: a status update is answered with success while the claim
\* already has the other status of an update that committed after it and
\* is still in flight; one of the two sets processedAt and the other
\* clears it.
C25_Witness ==
  /\ resp.op = "UpdateStatus" /\ resp.code = 200
  /\ claims[resp.in.id].status # Val(resp.in.status)
  /\ "pending" \in {claims[resp.in.id].status, Val(resp.in.status)}
  /\ \E r \in BagToSet(reqs) :
       /\ r.op = "UpdateStatus" /\ r.pc = "claimActivity.create"
       /\ r.in.id = resp.in.id
       /\ Val(r.in.status) = claims[resp.in.id].status

\* C26: no step changes a field of a claim of the store other than status,
\* processedAt and updatedAt, and no step removes a claim: tenantId,
\* submittedAt, the patient fields, amount, diagnosis and the rest stay as
\* CreateClaim wrote them.
C26_ClaimFrame ==
  [][ \A id \in DOMAIN claims :
        /\ id \in DOMAIN claims'
        /\ \A f \in DOMAIN claims[id] \ {"status", "processedAt", "updatedAt"} :
             claims'[id][f] = claims[id][f] ]_vars

\* C26 witness: a status update of a claim was answered with success and
\* the claim has the new status.
C26_Witness ==
  /\ Sent("UpdateStatus") /\ resp.code = 200
  /\ claims[resp.in.id].status = "approved"
  /\ claims[resp.in.id].processedAt # NULL

\* C26 witness: a note was added to a claim.
C26_WitnessNote ==
  /\ Sent("AppendNote") /\ resp.code = 201
  /\ resp.in.id \in DOMAIN claims

\* The claims of the store that pass the query of the dashboard response.
Counted == {c \in Range(claims) : Passes(c, resp.in)}

\* C27: no step that answers a dashboard request changes a tenant, a claim
\* or an activity; a dashboard request that passed the gate is answered
\* with success whatever CreateClaim and UpdateStatus requests are in
\* flight beside it; and its result aggregates the claims of the store as
\* they are when it is sent, which is how they stood at the one read of the
\* request: the total, the approved ones, the totals of the leaderboard and
\* the counts of the trend buckets are those of the filtered claims.
C27_DashboardReadsOneInstant ==
  /\ [][ resp'.op = "Dashboard" => UNCHANGED <<tenants, claims, activities>> ]_vars
  /\ []( Sent("Dashboard") =>
           /\ resp.code = 200
           /\ resp.body.totalClaims = Cardinality(Counted)
           /\ resp.body.autoApproved
                = Cardinality({c \in Counted : c.status = "approved"})
           /\ SumSeq([k \in 1..Len(resp.body.tenantLeaderboard) |->
                        resp.body.tenantLeaderboard[k].total])
                = Cardinality(Counted)
           /\ SumSeq([k \in 1..Len(resp.body.statusTrends) |->
                        resp.body.statusTrends[k].approved
                          + resp.body.statusTrends[k].pending
                          + resp.body.statusTrends[k].rejected])
                = Cardinality(Counted) )

\* C27 witness: the dashboard is answered while a CreateClaim request has
\* written its claim and not yet its activity, and an UpdateStatus request
\* has approved the other claim and not yet written its activity; both
\* claims are counted, one as approved.
C27_Witness ==
  /\ Sent("Dashboard") /\ resp.code = 200
  /\ resp.body.totalClaims = 2 /\ resp.body.autoApproved = 1
  /\ \E r \in BagToSet(reqs) : r.op = "CreateClaim" /\ r.pc = "claimActivity.create"
  /\ \E r \in BagToSet(reqs) : r.op = "UpdateStatus" /\ r.pc = "claimActivity.create"

\* C28: after a CreateClaim or an UpdateStatus answered with success, the
\* tenant of the claim has a lastActivity not earlier than the time the
\* claim was written, and its claimsProcessed counts at least those of its
\* claims that are processed.
C28_TenantDenormalized ==
  (resp.op \in {"CreateClaim", "UpdateStatus"} /\ resp.code = 200) =>
    LET claim == resp.body
        tenant == tenants[claim.tenantId]
    IN  /\ tenant.lastActivity >= claim.updatedAt
        /\ tenant.claimsProcessed
             >= Cardinality({c \in ClaimsOfTenant(tenant.id) : c.processedAt # NULL})

\* The status activities of claim `id` and the newest of them: those with
\* the latest createdAt.
StatusActivities(id) ==
  {a \in Range(activities) : a.claimId = id /\ a.type = "status"}
NewestStatusActivities(id) ==
  {a \in StatusActivities(id) : \A o \in StatusActivities(id) : o.createdAt <= a.createdAt}

\* C29: when no UpdateStatus request on a claim is in flight and the claim
\* has status activities, a newest one of them names the status the claim
\* has.
C29_NewestActivityNamesStatus ==
  \A id \in DOMAIN claims :
    ( /\ StatusActivities(id) # {}
      /\ \A r \in BagToSet(reqs) : ~(r.op = "UpdateStatus" /\ r.in.id = id) )
    => \E a \in NewestStatusActivities(id) :
         a.message = <<"Status updated to ", claims[id].status>>

\* C30: a CreateClaim or UpdateStatus request that was not answered with
\* success has left no claim written (none created, none updated) and no
\* audit record behind.
C30_MutationAllOrNothing ==
  (resp.op \in {"CreateClaim", "UpdateStatus"} /\ resp.code # 200) =>
    \A e \in resp.effects :
      /\ ~(e[1] = "claim" /\ e[2] \in DOMAIN claims)
      /\ ~(e[1] = "audit" /\ e[2] \in 1..Len(audit))

====
